---- MODULE Spec2Model ----
(***************************************************************************)
(* Model of mini-project-clock.c: a PIC18 real-time clock.                 *)
(*                                                                         *)
(* The firmware is built with XC8 (the `void interrupt` qualifier, the     *)
(* plib/ headers), where plain char is an unsigned 8-bit integer; the      *)
(* switch labels case(ALARM1) = 0x80 and the test (Switches() >> 7) == 1   *)
(* only work with an unsigned char.  char values are therefore 0..255 and  *)
(* char arithmetic wraps modulo 2^8; unsigned int is 16 bits.              *)
(*                                                                         *)
(* The main loop is cut at the statements where it reads or writes the     *)
(* state shared with the one-second interrupt; pc names the statement the  *)
(* main context is about to execute.  The Timer1 overflow flag and enable  *)
(* bit are modelled as the hardware keeps them, so a pending overflow is   *)
(* served before the next main-context statement whenever it is enabled.   *)
(* CalcTime is cut between its update of MainTime and its clearing of the  *)
(* rollover count, where the interrupt can be served.                      *)
(*                                                                         *)
(* Timer0, its multiplexer and the four millisecond counters run in        *)
(* SpecTimer0, where the main loop, the debounce routines and the alarm    *)
(* playback test and reset the counters as the code does.  In the other    *)
(* specifications Timer0 does not fire: a time-out test is an input chosen *)
(* at the statement that reads the counter, and in the main loop, the      *)
(* menus and the alarm playback the result of a debounced button read is   *)
(* such an input too.  The debounce routines are modelled on the input     *)
(* lines in SpecButton, the editors with the buttons held in SpecEdit.     *)
(*                                                                         *)
(* With RCONbits.IPEN set, GIE enables the high-priority Timer1 interrupt  *)
(* and PEIE with TMR0IE the low-priority Timer0 interrupt; the three bits  *)
(* are state, and an interrupt is served only while its bits are set.      *)
(* SpecWait runs a debounce busy-wait with Timer0 firing under weak        *)
(* fairness of the interrupt and of the loop test.  SpecYear, SpecIndex    *)
(* and SpecLeave start inside the year edit loops, at the display block    *)
(* and inside the minutes and hours edit loops, in states the main loop    *)
(* reaches from boot.                                                      *)
(***************************************************************************)
EXTENDS Integers, Sequences, FiniteSets, TLC

VARIABLES
    MainTime,       \* clock-of-record time   [hrs, mins, secs]
    MainDate,       \* clock-of-record date   [day, month, year_short, year_long]
    Alarm1Time, Alarm1Date, Alarm1On,
    Alarm2Time, Alarm2Date, Alarm2On,
    mins_rollover,  \* minute rollovers raised by the seconds ISR, not yet folded
    day_rollover,   \* day rollover raised by CalcTime, not yet folded
    dp_mask,        \* decimal-point mask toggled at 1 Hz
    disp_index,     \* field shown in normal mode
    disp_U1, disp_U2, disp_LEDS,   \* display buffers read by the multiplexer
    TMR1IE,         \* PIE1bits.TMR1IE: Timer1 interrupt enable
    TMR1IF,         \* PIR1bits.TMR1IF: Timer1 overflow flag
    pc,             \* statement the main context executes next
    year, leap,     \* argument and returned value of a CalcLeapYear call
    ticks,          \* Timer1 overflows still to come
    cycles,         \* display-cycle time-outs still to come
    edits,          \* debounced button presses still to be seen
    note,           \* position in the melody of the alarm that is sounding
    detected,       \* history: a button read has returned 1 since the
                    \* alarm that sounded last began to play
    RJ5, RJ0, RB0,  \* input lines read by the debounce routines (0: asserted)
    ret,            \* value returned by the last debounce call
    downs,          \* history: times the button under test has gone down
    reports,        \* history: calls that have reported it pressed
    calls,          \* debounce calls still to be made
    bounces,        \* input line changes still to come
    folded,         \* history: the rollover count that the CalcTime under
                    \* way has added to the minutes
    multiplex_index,                          \* display bank driven next
    ms_count0, ms_count1, ms_count2, ms_count3, \* millisecond counters
    driven,         \* history: <<LH0, LH1, LA4, LATF>> as the last firing of
                    \* Timer0 wrote them, <<>> before the first firing
    back,           \* statement whose debounced reads are under way
    reads,          \* results of the reads made for it so far
    fires,          \* Timer0 overflows still to come
    GIE, PEIE,      \* INTCONbits.GIE, INTCONbits.PEIE: with RCONbits.IPEN = 1
                    \* the enables of the high- and low-priority interrupts
    TMR0IE          \* INTCONbits.TMR0IE: Timer0 interrupt enable

clockVars == <<MainTime, MainDate, mins_rollover, day_rollover>>
alarmVars == <<Alarm1Time, Alarm1Date, Alarm1On, Alarm2Time, Alarm2Date, Alarm2On>>
dispVars  == <<disp_index, disp_U1, disp_U2, disp_LEDS>>
tmr1Vars  == <<TMR1IE, TMR1IF>>
leapVars  == <<year, leap>>
intVars   == <<GIE, PEIE, TMR0IE>>
budgetVars == <<ticks, cycles, edits>>
playVars  == <<note, detected>>
btnVars   == <<RJ5, RJ0, RB0, ret, downs, reports, calls, bounces>>
t0Vars    == <<multiplex_index, ms_count0, ms_count1, ms_count2, ms_count3,
               driven, back, reads, fires, GIE, PEIE, TMR0IE>>
vars == <<MainTime, MainDate, Alarm1Time, Alarm1Date, Alarm1On,
          Alarm2Time, Alarm2Date, Alarm2On, mins_rollover, day_rollover,
          dp_mask, disp_index, disp_U1, disp_U2, disp_LEDS,
          TMR1IE, TMR1IF, pc, year, leap, ticks, cycles, edits,
          note, detected, RJ5, RJ0, RB0, ret, downs, reports, calls, bounces,
          folded, multiplex_index, ms_count0, ms_count1, ms_count2, ms_count3,
          driven, back, reads, fires>>

----------------------------------------------------------------------------
(* Bounds of the model *)

\* Every behaviour has a budget of Timer1 overflows, of display-cycle
\* time-outs and of statements that see a debounced button press; the
\* initial state of a specification sets the three budgets.
MaxTicks == 1          \* the whole program
MaxCycles == 1
MaxEdits == 1
ClockTicks == 1        \* the clock-of-record with its editors
ClockEdits == 3
CalcTicks == 2         \* the calendar engine and the alarm poll
MaxRollover == 5       \* largest pending minute-rollover count drawn as an input
MaxCalls == 2          \* calls of a debounce routine after the first
MaxBounces == 2        \* changes of level of the input lines

----------------------------------------------------------------------------
(* Program constants *)

HRS    == 4
MINS   == 2
SECS   == 1
DAY    == 32
MONTH  == 16
YEAR   == 8
ALARM1 == 128
ALARM2 == 64

\* 7-segment patterns of the digits 0..9 (index 0 of the C array is index 1 here)
DispNums == <<132, 245, 76, 100, 53, 38, 6, 244, 4, 52>>

\* 7-segment patterns of the letters the program shows
DispChars == [A |-> 20, d |-> 69, E |-> 14, F |-> 30, h |-> 23, i |-> 223,
              M |-> 214, n |-> 87, o |-> 71, r |-> 95, S |-> 38, y |-> 37]

DaysInMonth == [m \in 0..12 |->
    IF m = 0 THEN 0 ELSE <<31, 28, 31, 30, 31, 30, 31, 31, 30, 31, 30, 31>>[m]]

DaysInMonthLeap == [m \in 0..12 |->
    IF m = 0 THEN 0 ELSE <<31, 29, 31, 30, 31, 30, 31, 31, 30, 31, 30, 31>>[m]]

----------------------------------------------------------------------------
(* Integer types *)

\* value stored in a char (unsigned, 8 bits)
ToChar(x) == x % 256

\* value stored in an unsigned int (16 bits)
ToUInt(x) == x % 65536

RECURSIVE BitOp(_, _, _, _)
\* bitwise combination of the low n bits of a and b; op is "and", "or" or "xor"
BitOp(op, a, b, n) ==
    IF n = 0 THEN 0
    ELSE LET x == a % 2
             y == b % 2
             z == CASE op = "and" -> IF x = 1 /\ y = 1 THEN 1 ELSE 0
                    [] op = "or"  -> IF x = 1 \/ y = 1 THEN 1 ELSE 0
                    [] OTHER      -> IF x # y THEN 1 ELSE 0
         IN  z + 2 * BitOp(op, a \div 2, b \div 2, n - 1)

BitAnd(a, b) == BitOp("and", a, b, 8)
BitOr(a, b)  == BitOp("or", a, b, 8)
BitXor(a, b) == BitOp("xor", a, b, 8)

----------------------------------------------------------------------------
(* Timekeeping *)

\* Timer1_isr without the rollover increment
Timer1_isr_NoRollover(t, r) ==
    IF t.secs < 59
    THEN [time |-> [t EXCEPT !.secs = ToChar(t.secs + 1)], roll |-> r]
    ELSE [time |-> [t EXCEPT !.secs = 0], roll |-> r]

\* Timer1_isr: the effect of one seconds interrupt on MainTime (t) and
\* mins_rollover (r)
Timer1_isr(t, r) ==
    IF t.secs < 59
    THEN [time |-> [t EXCEPT !.secs = ToChar(t.secs + 1)], roll |-> r]
    ELSE [time |-> [t EXCEPT !.secs = 0], roll |-> ToChar(r + 1)]

\* CalcTime with the hour test off by one (hrs <= 23)
CalcTime_HrsOffByOne(t, r, dr) ==
    LET mins_temp == ToChar(t.mins + r)
    IN  IF mins_temp < 59
        THEN [time |-> [t EXCEPT !.mins = mins_temp], day |-> dr]
        ELSE IF t.hrs <= 23
             THEN [time |-> [t EXCEPT !.mins = ToChar(mins_temp - 60),
                                      !.hrs  = ToChar(t.hrs + 1)],
                   day  |-> dr]
             ELSE [time |-> [t EXCEPT !.mins = ToChar(mins_temp - 60),
                                      !.hrs  = 0],
                   day  |-> 1]

\* CalcTime: folds the pending rollover count r into MainTime (t); dr is
\* day_rollover.  Its last statement, mins_rollover = 0, is CalcTimeClear.
CalcTime(t, r, dr) ==
    LET mins_temp == ToChar(t.mins + r)
    IN  IF mins_temp < 59
        THEN [time |-> [t EXCEPT !.mins = mins_temp], day |-> dr]
        ELSE IF t.hrs < 23
             THEN [time |-> [t EXCEPT !.mins = ToChar(mins_temp - 60),
                                      !.hrs  = ToChar(t.hrs + 1)],
                   day  |-> dr]
             ELSE [time |-> [t EXCEPT !.mins = ToChar(mins_temp - 60),
                                      !.hrs  = 0],
                   day  |-> 1]

\* CalcLeapYear without the 400-year rule
CalcLeapYear_No400(y) ==
    IF y % 4 = 0
    THEN IF y % 100 = 0 THEN 0 ELSE 1
    ELSE 0

\* CalcLeapYear: 1 if y is a leap year, 0 if not
CalcLeapYear(y) ==
    IF y % 4 = 0
    THEN IF y % 100 = 0
         THEN IF y % 400 = 0 THEN 1 ELSE 0
         ELSE 1
    ELSE 0

\* CalcDate whose leap-year branch forgets year_short at the year wrap
CalcDate_NoYearShort(d) ==
    IF CalcLeapYear(d.year_long) = 0
    THEN IF d.day < DaysInMonth[d.month]
         THEN [d EXCEPT !.day = ToChar(d.day + 1)]
         ELSE IF d.month < 12
              THEN [d EXCEPT !.day = 1, !.month = ToChar(d.month + 1)]
              ELSE IF d.year_long < 99
                   THEN [d EXCEPT !.day = 1, !.month = 1,
                                  !.year_long  = ToUInt(d.year_long + 1),
                                  !.year_short = ToChar(d.year_short + 1)]
                   ELSE [d EXCEPT !.day = 1, !.month = 1,
                                  !.year_long = 2000, !.year_short = 0]
    ELSE IF d.day < DaysInMonthLeap[d.month]
         THEN [d EXCEPT !.day = ToChar(d.day + 1)]
         ELSE IF d.month < 12
              THEN [d EXCEPT !.day = 1, !.month = ToChar(d.month + 1)]
              ELSE [d EXCEPT !.day = 1, !.month = 1,
                             !.year_long  = ToUInt(d.year_long + 1)]

\* CalcDate whose non-leap branch tests the day against the leap-year table
CalcDate_LeapTable(d) ==
    IF CalcLeapYear(d.year_long) = 0
    THEN IF d.day < DaysInMonthLeap[d.month]
         THEN [d EXCEPT !.day = ToChar(d.day + 1)]
         ELSE IF d.month < 12
              THEN [d EXCEPT !.day = 1, !.month = ToChar(d.month + 1)]
              ELSE IF d.year_long < 99
                   THEN [d EXCEPT !.day = 1, !.month = 1,
                                  !.year_long  = ToUInt(d.year_long + 1),
                                  !.year_short = ToChar(d.year_short + 1)]
                   ELSE [d EXCEPT !.day = 1, !.month = 1,
                                  !.year_long = 2000, !.year_short = 0]
    ELSE IF d.day < DaysInMonthLeap[d.month]
         THEN [d EXCEPT !.day = ToChar(d.day + 1)]
         ELSE IF d.month < 12
              THEN [d EXCEPT !.day = 1, !.month = ToChar(d.month + 1)]
              ELSE [d EXCEPT !.day = 1, !.month = 1,
                             !.year_long  = ToUInt(d.year_long + 1),
                             !.year_short = ToChar(d.year_short + 1)]

\* CalcDate: the date after d
CalcDate(d) ==
    IF CalcLeapYear(d.year_long) = 0
    THEN IF d.day < DaysInMonth[d.month]
         THEN [d EXCEPT !.day = ToChar(d.day + 1)]
         ELSE IF d.month < 12
              THEN [d EXCEPT !.day = 1, !.month = ToChar(d.month + 1)]
              ELSE IF d.year_long < 99
                   THEN [d EXCEPT !.day = 1, !.month = 1,
                                  !.year_long  = ToUInt(d.year_long + 1),
                                  !.year_short = ToChar(d.year_short + 1)]
                   ELSE [d EXCEPT !.day = 1, !.month = 1,
                                  !.year_long = 2000, !.year_short = 0]
    ELSE IF d.day < DaysInMonthLeap[d.month]
         THEN [d EXCEPT !.day = ToChar(d.day + 1)]
         ELSE IF d.month < 12
              THEN [d EXCEPT !.day = 1, !.month = ToChar(d.month + 1)]
              ELSE [d EXCEPT !.day = 1, !.month = 1,
                             !.year_long  = ToUInt(d.year_long + 1),
                             !.year_short = ToChar(d.year_short + 1)]

\* CompareTimes: 1 if the alarm matches the clock-of-record.  args = 1
\* compares the time only, args = 2 the time and the date.
CompareTimes(mainTime, mainDate, alarmTime, alarmDate, args) ==
    CASE args = 1 ->
           IF /\ mainTime.hrs = alarmTime.hrs
              /\ mainTime.mins = alarmTime.mins
              /\ mainTime.secs = alarmTime.secs
           THEN 1 ELSE 0
      [] args = 2 ->
           IF /\ mainTime.hrs = alarmTime.hrs
              /\ mainTime.mins = alarmTime.mins
              /\ mainTime.secs = alarmTime.secs
              /\ mainDate.day = alarmDate.day
              /\ mainDate.month = alarmDate.month
              /\ mainDate.year_short = alarmDate.year_short
           THEN 1 ELSE 0
      [] OTHER -> 0

----------------------------------------------------------------------------
(* Display.  A display state d is the record [U1, U2, LEDS] of the three   *)
(* buffers disp_U1, disp_U2, disp_LEDS.                                    *)

\* Num2Disp: shows the char v on the two digits, or Er and error code 1
Num2Disp(v, d) ==
    IF v > 99
    THEN [U1 |-> DispChars.r, U2 |-> DispChars.E, LEDS |-> 1]
    ELSE [U1 |-> DispNums[(v % 10) + 1], U2 |-> DispNums[(v \div 10) + 1],
          LEDS |-> d.LEDS]

\* CurrentDisplay without its default case
CurrentDisplay_NoDefault(i, t, dt, d) ==
    CASE i = 0 -> [Num2Disp(dt.day, d) EXCEPT !.LEDS = DAY]
      [] i = 1 -> [Num2Disp(dt.month, d) EXCEPT !.LEDS = MONTH]
      [] i = 2 -> [Num2Disp(dt.year_short, d) EXCEPT !.LEDS = YEAR]
      [] i = 3 -> [Num2Disp(t.hrs, d) EXCEPT !.LEDS = HRS]
      [] i = 4 -> [Num2Disp(t.mins, d) EXCEPT !.LEDS = MINS]
      [] i = 5 -> [Num2Disp(t.secs, d) EXCEPT !.LEDS = SECS]
      [] OTHER -> d

\* CurrentDisplay: shows the field of the clock-of-record selected by i
CurrentDisplay(i, t, dt, d) ==
    CASE i = 0 -> [Num2Disp(dt.day, d) EXCEPT !.LEDS = DAY]
      [] i = 1 -> [Num2Disp(dt.month, d) EXCEPT !.LEDS = MONTH]
      [] i = 2 -> [Num2Disp(dt.year_short, d) EXCEPT !.LEDS = YEAR]
      [] i = 3 -> [Num2Disp(t.hrs, d) EXCEPT !.LEDS = HRS]
      [] i = 4 -> [Num2Disp(t.mins, d) EXCEPT !.LEDS = MINS]
      [] i = 5 -> [Num2Disp(t.secs, d) EXCEPT !.LEDS = SECS]
      [] OTHER -> [U1 |-> DispChars.r, U2 |-> DispChars.E, LEDS |-> 3]

\* The flash routines leave both digits blank (0xFF) and set the LEDs and
\* the decimal-point mask; the glyphs they show in between are not kept.
SecsFlash(d)   == [U1 |-> 255, U2 |-> 255, LEDS |-> BitOr(BitAnd(d.LEDS, 192), SECS)]
MinsFlash(d)   == [U1 |-> 255, U2 |-> 255, LEDS |-> BitOr(BitAnd(d.LEDS, 192), MINS)]
HrsFlash(d)    == [U1 |-> 255, U2 |-> 255, LEDS |-> BitOr(BitAnd(d.LEDS, 192), HRS)]
DayFlash(d)    == [U1 |-> 255, U2 |-> 255, LEDS |-> BitOr(BitAnd(d.LEDS, 192), DAY)]
MonthFlash(d)  == [U1 |-> 255, U2 |-> 255, LEDS |-> BitAnd(BitAnd(d.LEDS, 192), MONTH)]
YearFlash(d)   == [U1 |-> 255, U2 |-> 255, LEDS |-> BitOr(BitAnd(d.LEDS, 192), YEAR)]
Alarm1Flash(d) == [U1 |-> 255, U2 |-> 255, LEDS |-> BitOr(BitAnd(d.LEDS, 192), ALARM1)]
Alarm2Flash(d) == [U1 |-> 255, U2 |-> 255, LEDS |-> BitOr(BitAnd(d.LEDS, 192), ALARM2)]

\* dp_mask |= (1 << 2), done by every flash routine
FlashDpMask(m) == BitOr(m, 4)

----------------------------------------------------------------------------
(* Field editors.  An editor makes four debounced button reads in turn;    *)
(* b[1], b[2] are the results of its two PB2pressed calls and b[3], b[4]   *)
(* those of its two PB1pressed calls.                                      *)

Presses == [1..4 -> BOOLEAN]
NoPress == [k \in 1..4 |-> FALSE]

SetSecs(ts, b) ==
    LET s1 == IF b[1] /\ ts.secs < 59 THEN ToChar(ts.secs + 1) ELSE ts.secs
        s2 == IF b[2] /\ s1 = 59 THEN 0 ELSE s1
        s3 == IF b[3] /\ s2 > 0 THEN ToChar(s2 - 1) ELSE s2
        s4 == IF b[4] /\ s3 = 0 THEN 59 ELSE s3
    IN  [ts EXCEPT !.secs = s4]

SetMins(tm, b) ==
    LET s1 == IF b[1] /\ tm.mins < 59 THEN ToChar(tm.mins + 1) ELSE tm.mins
        s2 == IF b[2] /\ s1 = 59 THEN 0 ELSE s1
        s3 == IF b[3] /\ s2 > 0 THEN ToChar(s2 - 1) ELSE s2
        s4 == IF b[4] /\ s3 = 0 THEN 59 ELSE s3
    IN  [tm EXCEPT !.mins = s4]

SetHrs(th, b) ==
    LET s1 == IF b[1] /\ th.hrs < 23 THEN ToChar(th.hrs + 1) ELSE th.hrs
        s2 == IF b[2] /\ s1 = 23 THEN 0 ELSE s1
        s3 == IF b[3] /\ s2 > 0 THEN ToChar(s2 - 1) ELSE s2
        s4 == IF b[4] /\ s3 = 0 THEN 23 ELSE s3
    IN  [th EXCEPT !.hrs = s4]

\* SetDay reads the month of the clock-of-record (mainMonth) for its lower
\* wrap target, whichever date record dd it edits
SetDay(dd, mainMonth, b) ==
    IF CalcLeapYear(dd.year_long) = 1
    THEN LET s1 == IF b[1] /\ dd.day < DaysInMonthLeap[dd.month]
                   THEN ToChar(dd.day + 1) ELSE dd.day
             s2 == IF b[2] /\ s1 = DaysInMonthLeap[dd.month] THEN 1 ELSE s1
             s3 == IF b[3] /\ s2 > 1 THEN ToChar(s2 - 1) ELSE s2
             s4 == IF b[4] /\ s3 = 1 THEN DaysInMonth[mainMonth] ELSE s3
         IN  [dd EXCEPT !.day = s4]
    ELSE LET s1 == IF b[1] /\ dd.day < DaysInMonthLeap[dd.month]
                   THEN ToChar(dd.day + 1) ELSE dd.day
             s2 == IF b[2] /\ s1 = DaysInMonth[dd.month] THEN 1 ELSE s1
             s3 == IF b[3] /\ s2 > 1 THEN ToChar(s2 - 1) ELSE s2
             s4 == IF b[4] /\ s3 = 1 THEN DaysInMonth[mainMonth] ELSE s3
         IN  [dd EXCEPT !.day = s4]

SetMonth(dm, b) ==
    LET s1 == IF b[1] /\ dm.month < 12 THEN ToChar(dm.month + 1) ELSE dm.month
        s2 == IF b[2] /\ s1 = 12 THEN 1 ELSE s1
        s3 == IF b[3] /\ s2 > 1 THEN ToChar(s2 - 1) ELSE s2
        s4 == IF b[4] /\ s3 = 1 THEN 12 ELSE s3
    IN  [dm EXCEPT !.month = s4]

\* SetYear whose wrap from 2099 leaves year_short as it is
SetYear_LongOnly(dy, b) ==
    LET y1 == IF b[1] /\ dy.year_long < 2099
              THEN [dy EXCEPT !.year_long = ToUInt(dy.year_long + 1),
                              !.year_short = ToChar(dy.year_short + 1)]
              ELSE dy
        y2 == IF b[2] /\ y1.year_long = 2099
              THEN [y1 EXCEPT !.year_long = 2000]
              ELSE y1
        y3 == IF b[3] /\ y2.year_long > 2000
              THEN [y2 EXCEPT !.year_long = ToUInt(y2.year_long - 1),
                              !.year_short = ToChar(y2.year_short - 1)]
              ELSE y2
        y4 == IF b[4] /\ y3.year_long = 2000
              THEN [y3 EXCEPT !.year_long = 2099, !.year_short = 99]
              ELSE y3
    IN  y4

SetYear(dy, b) ==
    LET y1 == IF b[1] /\ dy.year_long < 2099
              THEN [dy EXCEPT !.year_long = ToUInt(dy.year_long + 1),
                              !.year_short = ToChar(dy.year_short + 1)]
              ELSE dy
        y2 == IF b[2] /\ y1.year_long = 2099
              THEN [y1 EXCEPT !.year_long = 2000, !.year_short = 0]
              ELSE y1
        y3 == IF b[3] /\ y2.year_long > 2000
              THEN [y2 EXCEPT !.year_long = ToUInt(y2.year_long - 1),
                              !.year_short = ToChar(y2.year_short - 1)]
              ELSE y2
        y4 == IF b[4] /\ y3.year_long = 2000
              THEN [y3 EXCEPT !.year_long = 2099, !.year_short = 99]
              ELSE y3
    IN  y4

----------------------------------------------------------------------------
(* Settings menu tables *)

TimeFields == {"secs", "mins", "hrs"}
DateFields == {"day", "month", "year"}
MainFields == TimeFields \cup DateFields

\* switch pattern that selects field f
FieldCode(f) ==
    CASE f = "secs" -> SECS [] f = "mins" -> MINS [] f = "hrs" -> HRS
      [] f = "day" -> DAY [] f = "month" -> MONTH [] f = "year" -> YEAR

\* the flash routine shown when field f is entered
FieldFlash(f, d) ==
    CASE f = "secs" -> SecsFlash(d) [] f = "mins" -> MinsFlash(d)
      [] f = "hrs" -> HrsFlash(d) [] f = "day" -> DayFlash(d)
      [] f = "month" -> MonthFlash(d) [] f = "year" -> YearFlash(d)

\* the editor of time field f applied to the TIME record T
EditTime(f, T, b) ==
    CASE f = "secs" -> SetSecs(T, b) [] f = "mins" -> SetMins(T, b)
      [] f = "hrs" -> SetHrs(T, b)

\* the editor of date field f applied to the DATE record D
EditDate(f, D, mainMonth, b) ==
    CASE f = "day" -> SetDay(D, mainMonth, b) [] f = "month" -> SetMonth(D, b)
      [] f = "year" -> SetYear(D, b)

\* the char of field f that the edit loop passes to Num2Disp
FieldValue(f, T, D) ==
    CASE f = "secs" -> T.secs [] f = "mins" -> T.mins [] f = "hrs" -> T.hrs
      [] f = "day" -> D.day [] f = "month" -> D.month
      [] f = "year" -> D.year_short

\* position of the main context inside the edit loop of field f
EditPc(f) ==
    CASE f = "secs" -> "edit_secs" [] f = "mins" -> "edit_mins"
      [] f = "hrs" -> "edit_hrs" [] f = "day" -> "edit_day"
      [] f = "month" -> "edit_month" [] f = "year" -> "edit_year"

A1Pc(f) ==
    CASE f = "secs" -> "a1_secs" [] f = "mins" -> "a1_mins" [] f = "hrs" -> "a1_hrs"

A2Pc(f) ==
    CASE f = "secs" -> "a2_secs" [] f = "mins" -> "a2_mins"
      [] f = "hrs" -> "a2_hrs" [] f = "day" -> "a2_day"
      [] f = "month" -> "a2_month" [] f = "year" -> "a2_year"

\* values the switch bank can read
SwitchValues == 0..255

\* SetMenuCase that tests the bit of a mode code instead of the whole reading
SetMenuCase_BitTest(s) ==
    CASE BitAnd(s, SECS) # 0 -> "secs" [] BitAnd(s, MINS) # 0 -> "mins"
      [] BitAnd(s, HRS) # 0 -> "hrs" [] BitAnd(s, DAY) # 0 -> "day"
      [] BitAnd(s, MONTH) # 0 -> "month" [] BitAnd(s, YEAR) # 0 -> "year"
      [] BitAnd(s, ALARM1) # 0 -> "alarm1" [] BitAnd(s, ALARM2) # 0 -> "alarm2"
      [] OTHER -> "invalid"

\* SetMenu: the case of switch (Switches()) taken on the reading s
SetMenuCase(s) ==
    CASE s = SECS -> "secs" [] s = MINS -> "mins" [] s = HRS -> "hrs"
      [] s = DAY -> "day" [] s = MONTH -> "month" [] s = YEAR -> "year"
      [] s = ALARM1 -> "alarm1" [] s = ALARM2 -> "alarm2"
      [] OTHER -> "invalid"

\* SetAlarm1: the case of switch (Switches()) taken on the reading s
SetAlarm1Case(s) ==
    CASE s = 129 -> "secs" [] s = 130 -> "mins" [] s = 132 -> "hrs"
      [] s = 128 -> "toggle" [] OTHER -> "invalid"

\* SetAlarm2: the case of switch (Switches()) taken on the reading s
SetAlarm2Case(s) ==
    CASE s = 65 -> "secs" [] s = 66 -> "mins" [] s = 68 -> "hrs"
      [] s = 72 -> "year" [] s = 80 -> "month" [] s = 96 -> "day"
      [] s = 64 -> "toggle" [] OTHER -> "invalid"

\* s >> n on a char promoted to int
ShiftRight(s, n) == s \div (2 ^ n)

----------------------------------------------------------------------------
(* State access *)

Disp == [U1 |-> disp_U1, U2 |-> disp_U2, LEDS |-> disp_LEDS]

SetDisp(d) ==
    /\ disp_U1' = d.U1
    /\ disp_U2' = d.U2
    /\ disp_LEDS' = d.LEDS

\* a Timer1 interrupt is requested and enabled: it pre-empts the main context
IsrPending == GIE = 1 /\ TMR1IE = 1 /\ TMR1IF = 1

\* the main context is at statement p and is not pre-empted
At(p) == pc = p /\ ~IsrPending

----------------------------------------------------------------------------
(* Interrupt context *)

\* Timer1 hardware: one second has elapsed, the overflow flag is raised
Timer1Overflow ==
    /\ ~IsrPending
    /\ ticks > 0
    /\ TMR1IF' = 1
    /\ ticks' = ticks - 1
    /\ UNCHANGED <<clockVars, alarmVars, dispVars, dp_mask, TMR1IE, pc,
                   leapVars, intVars, playVars, btnVars, cycles, edits, folded, t0Vars>>

\* hp_secs_count_isr: serves the Timer1 interrupt
hp_secs_count_isr ==
    /\ IsrPending
    /\ TMR1IF' = 0
    /\ LET r == Timer1_isr(MainTime, mins_rollover)
       IN  /\ MainTime' = r.time
           /\ mins_rollover' = r.roll
    /\ dp_mask' = BitXor(dp_mask, 4)
    /\ UNCHANGED <<MainDate, day_rollover, alarmVars, dispVars, TMR1IE, pc,
                   leapVars, intVars, playVars, btnVars, budgetVars, folded, t0Vars>>

----------------------------------------------------------------------------
(* Main loop *)

\* main: if (mins_rollover >= 1) CalcTime(); up to the last statement of
\* CalcTime: the pending count is read and folded into MainTime
MainCalcTime ==
    /\ At("drain_time")
    /\ IF mins_rollover >= 1
       THEN LET r == CalcTime(MainTime, mins_rollover, day_rollover)
            IN  /\ MainTime' = r.time
                /\ day_rollover' = r.day
                /\ folded' = mins_rollover
                /\ pc' = "calc_clear"
       ELSE /\ UNCHANGED <<MainTime, day_rollover, folded>>
            /\ pc' = "drain_date"
    /\ UNCHANGED <<MainDate, mins_rollover, alarmVars, dispVars, dp_mask,
                   tmr1Vars, leapVars, intVars, playVars, btnVars, budgetVars, t0Vars>>

\* CalcTime: mins_rollover = 0, its last statement
CalcTimeClear ==
    /\ At("calc_clear")
    /\ mins_rollover' = 0
    /\ folded' = 0
    /\ pc' = "drain_date"
    /\ UNCHANGED <<MainTime, MainDate, day_rollover, alarmVars, dispVars,
                   dp_mask, tmr1Vars, leapVars, intVars, playVars, btnVars, budgetVars,
                   t0Vars>>

\* main: if (day_rollover == 1) CalcDate();
MainCalcDate ==
    /\ At("drain_date")
    /\ IF day_rollover = 1
       THEN /\ day_rollover' = 0
            /\ MainDate' = CalcDate(MainDate)
       ELSE UNCHANGED <<MainDate, day_rollover>>
    /\ pc' = "display"
    /\ UNCHANGED <<MainTime, mins_rollover, alarmVars, dispVars, dp_mask,
                   tmr1Vars, leapVars, intVars, playVars, btnVars, budgetVars, folded, t0Vars>>

\* the index stepped up without the wrap at 5
IndexUp_NoWrap(i) == ToChar(i + 1)

\* disp_index stepped forward and backward
IndexUp(i) == IF i < 5 THEN ToChar(i + 1) ELSE 0
IndexDown(i) == IF i > 0 THEN ToChar(i - 1) ELSE 5

\* main: display cycle time-out, PB1 and PB2 stepping, CurrentDisplay.
\* cyc: ms_count0 has reached DISPLAY_CYCLE_DELAY; p1, p2: both debounced
\* reads of the button returned 1.
MainDisplay ==
    /\ At("display")
    /\ \E cyc \in BOOLEAN, p1 \in BOOLEAN, p2 \in BOOLEAN :
         LET i1 == IF cyc THEN IndexUp(disp_index) ELSE disp_index
             i2 == IF p1 THEN IndexUp(i1) ELSE i1
             i3 == IF p2 THEN IndexDown(i2) ELSE i2
         IN  /\ ~cyc \/ cycles > 0
             /\ (~p1 /\ ~p2) \/ edits > 0
             /\ cycles' = IF cyc THEN cycles - 1 ELSE cycles
             /\ edits' = IF p1 \/ p2 THEN edits - 1 ELSE edits
             /\ disp_index' = i3
             /\ SetDisp(CurrentDisplay(i3, MainTime, MainDate, Disp))
    /\ pc' = "switches"
    /\ UNCHANGED <<clockVars, alarmVars, dp_mask, tmr1Vars, leapVars, intVars, playVars, btnVars, ticks, folded, t0Vars>>

\* main: if (Switches() != 0x00) SetMenu();
MainSwitches ==
    /\ At("switches")
    /\ pc' \in {IF s # 0 THEN "setmenu" ELSE "poll" : s \in SwitchValues}
    /\ UNCHANGED <<clockVars, alarmVars, dispVars, dp_mask, tmr1Vars,
                   leapVars, intVars, playVars, btnVars, budgetVars, folded, t0Vars>>

\* main: if (ms_count2 >= ALARM_POLL_RATE) ... ; due: the time-out test
MainPoll ==
    /\ At("poll")
    /\ \E due \in BOOLEAN :
         pc' = IF due THEN "poll1" ELSE "drain_time"
    /\ UNCHANGED <<clockVars, alarmVars, dispVars, dp_mask, tmr1Vars,
                   leapVars, intVars, playVars, btnVars, budgetVars, folded, t0Vars>>

\* the Alarm 1 test without the enabled flag
Alarm1Due_IgnoreEnable(mainTime, mainDate, alarmTime, alarmDate, on) ==
    CompareTimes(mainTime, mainDate, alarmTime, alarmDate, 1) # 0

\* the test that guards SoundAlarm1 in main
Alarm1Due(mainTime, mainDate, alarmTime, alarmDate, on) ==
    CompareTimes(mainTime, mainDate, alarmTime, alarmDate, 1) # 0 /\ on # 0

\* the Alarm 2 test without the comparison of the year
Alarm2Due_NoYear(mainTime, mainDate, alarmTime, alarmDate, on) ==
    /\ CompareTimes(mainTime, [mainDate EXCEPT !.year_short = alarmDate.year_short],
                    alarmTime, alarmDate, 2) # 0
    /\ on # 0

\* the test that guards SoundAlarm2 in main
Alarm2Due(mainTime, mainDate, alarmTime, alarmDate, on) ==
    CompareTimes(mainTime, mainDate, alarmTime, alarmDate, 2) # 0 /\ on # 0

\* main: the Alarm 1 comparison of an alarm poll
Poll1 ==
    /\ At("poll1")
    /\ pc' = IF Alarm1Due(MainTime, MainDate, Alarm1Time, Alarm1Date, Alarm1On)
             THEN "sound1" ELSE "poll2"
    /\ UNCHANGED <<clockVars, alarmVars, dispVars, dp_mask, tmr1Vars,
                   leapVars, intVars, playVars, btnVars, budgetVars, folded, t0Vars>>

\* SoundAlarm1 that disables the alarm when it starts to play
SoundAlarm1_ClearsOnEntry ==
    /\ At("sound1")
    /\ SetDisp([U1 |-> DispNums[2], U2 |-> DispChars.A, LEDS |-> 255])
    /\ note' = 0
    /\ detected' = 0
    /\ Alarm1On' = 0
    /\ pc' = "while1"
    /\ UNCHANGED <<clockVars, Alarm1Time, Alarm1Date, Alarm2Time, Alarm2Date,
                   Alarm2On, disp_index, dp_mask, tmr1Vars, leapVars, intVars, btnVars,
                   budgetVars, folded, t0Vars>>

\* SoundAlarm1: shows A1 and enters the playing loop
SoundAlarm1 ==
    /\ At("sound1")
    /\ SetDisp([U1 |-> DispNums[2], U2 |-> DispChars.A, LEDS |-> 255])
    /\ note' = 0
    /\ detected' = 0
    /\ pc' = "while1"
    /\ UNCHANGED <<clockVars, alarmVars, disp_index, dp_mask, tmr1Vars,
                   leapVars, intVars, btnVars, budgetVars, folded, t0Vars>>

\* main: the Alarm 2 comparison of an alarm poll
Poll2 ==
    /\ At("poll2")
    /\ pc' = IF Alarm2Due(MainTime, MainDate, Alarm2Time, Alarm2Date, Alarm2On)
             THEN "sound2" ELSE "drain_time"
    /\ UNCHANGED <<clockVars, alarmVars, dispVars, dp_mask, tmr1Vars,
                   leapVars, intVars, playVars, btnVars, budgetVars, folded, t0Vars>>

\* SoundAlarm2: shows A2 and enters the playing loop
SoundAlarm2 ==
    /\ At("sound2")
    /\ SetDisp([U1 |-> DispNums[3], U2 |-> DispChars.A, LEDS |-> 255])
    /\ note' = 0
    /\ detected' = 0
    /\ pc' = "while2"
    /\ UNCHANGED <<clockVars, alarmVars, disp_index, dp_mask, tmr1Vars,
                   leapVars, intVars, btnVars, budgetVars, folded, t0Vars>>

----------------------------------------------------------------------------
(* Alarm playback.  The melody of an alarm is the sequence of GEN_NOTE     *)
(* ("N") and GEN_PAUSE ("P") macros in the body of its playing loop; note  *)
(* is the position of the macro being executed.  A macro is cut where it   *)
(* reads the buttons: the tone loop, the gap loop of a GEN_NOTE, and the   *)
(* final test that breaks out of the playing loop.  Each condition reads   *)
(* PB1pressed() and PB2pressed(); p is true when one of them returned 1.   *)
(* A tone or gap loop ends on its time-out (p false) or on a press.        *)

Melody1 ==
    <<"N", "N", "N", "N", "N", "N", "N", "N", "N", "N", "N", "N",
       "P", "N", "N", "N", "N", "N", "P", "N", "N", "N", "N", "N",
       "P", "N", "N", "N", "N", "N", "P", "N", "N", "N", "N", "N",
       "P", "N", "N", "N", "N", "N", "N", "N", "N", "N", "N", "N",
       "N", "N", "N", "N", "N", "N", "N", "N", "N", "N", "N", "N",
       "N", "N", "N", "N", "N", "N", "N", "N", "N", "N", "N", "N",
       "N", "N", "N", "N", "N", "N", "N">>

Melody2 ==
    <<"N", "N", "N", "N", "N", "N", "N", "N", "N", "N", "N", "N",
       "N", "N", "N", "N", "N", "N", "N", "N", "N", "N", "N", "N",
       "N", "N", "N", "N", "N", "N", "N", "N", "N", "N", "N", "N",
       "N", "N", "N", "N", "N", "N", "N", "N", "N", "N", "N", "N",
       "N", "N", "N", "N", "N", "N", "N", "N", "N", "N", "N", "N",
       "N", "N">>

Melody(a) == IF a = 1 THEN Melody1 ELSE Melody2

Alarms == {1, 2}

WhilePc(a) == IF a = 1 THEN "while1" ELSE "while2"
TonePc(a)  == IF a = 1 THEN "tone1" ELSE "tone2"
GapPc(a)   == IF a = 1 THEN "gap1" ELSE "gap2"
CheckPc(a) == IF a = 1 THEN "check1" ELSE "check2"

\* the statement of main that follows the call of SoundAlarm<a>
ReturnPc(a) == IF a = 1 THEN "poll2" ELSE "drain_time"

\* Alarm<a>On = 0, the last statement of SoundAlarm<a>
AlarmOff(a) ==
    IF a = 1
    THEN Alarm1On' = 0 /\ UNCHANGED Alarm2On
    ELSE Alarm2On' = 0 /\ UNCHANGED Alarm1On

\* while (!PB2pressed() && !PB1pressed()): the playing loop starts a pass
\* of the melody, or ends on a press and the alarm is disabled
SoundWhile(a) ==
    /\ At(WhilePc(a))
    /\ \E p \in BOOLEAN :
         IF p
         THEN /\ detected' = 1
              /\ note' = 0
              /\ AlarmOff(a)
              /\ pc' = ReturnPc(a)
         ELSE /\ note' = 1
              /\ pc' = TonePc(a)
              /\ UNCHANGED <<detected, Alarm1On, Alarm2On>>
    /\ UNCHANGED <<clockVars, Alarm1Time, Alarm1Date, Alarm2Time, Alarm2Date,
                   dispVars, dp_mask, tmr1Vars, leapVars, intVars, btnVars, budgetVars, folded, t0Vars>>

\* GEN_NOTE, GEN_PAUSE: the tone (or silence) loop ends
SoundTone(a) ==
    /\ At(TonePc(a))
    /\ \E p \in BOOLEAN : detected' = IF p THEN 1 ELSE detected
    /\ pc' = IF Melody(a)[note] = "N" THEN GapPc(a) ELSE CheckPc(a)
    /\ UNCHANGED <<clockVars, alarmVars, dispVars, dp_mask, tmr1Vars,
                   leapVars, intVars, note, btnVars, budgetVars, folded, t0Vars>>

\* GEN_NOTE: the loop of the gap after the tone ends
SoundGap(a) ==
    /\ At(GapPc(a))
    /\ \E p \in BOOLEAN : detected' = IF p THEN 1 ELSE detected
    /\ pc' = CheckPc(a)
    /\ UNCHANGED <<clockVars, alarmVars, dispVars, dp_mask, tmr1Vars,
                   leapVars, intVars, note, btnVars, budgetVars, folded, t0Vars>>

\* SoundCheck that leaves the alarm enabled when it breaks out
SoundCheck_KeepEnabled(a) ==
    /\ At(CheckPc(a))
    /\ \E p \in BOOLEAN :
         IF p
         THEN /\ detected' = 1
              /\ note' = 0
              /\ pc' = ReturnPc(a)
         ELSE /\ note' = IF note < Len(Melody(a)) THEN note + 1 ELSE 0
              /\ pc' = IF note < Len(Melody(a)) THEN TonePc(a) ELSE WhilePc(a)
              /\ UNCHANGED detected
    /\ UNCHANGED <<clockVars, alarmVars, dispVars, dp_mask, tmr1Vars,
                   leapVars, intVars, btnVars, budgetVars, folded, t0Vars>>

\* GEN_NOTE, GEN_PAUSE: if (PB1pressed() || PB2pressed()) break; a press
\* leaves the playing loop and the alarm is disabled, otherwise the next
\* macro starts, or the repeat delay and the next pass
SoundCheck(a) ==
    /\ At(CheckPc(a))
    /\ \E p \in BOOLEAN :
         IF p
         THEN /\ detected' = 1
              /\ note' = 0
              /\ AlarmOff(a)
              /\ pc' = ReturnPc(a)
         ELSE /\ note' = IF note < Len(Melody(a)) THEN note + 1 ELSE 0
              /\ pc' = IF note < Len(Melody(a)) THEN TonePc(a) ELSE WhilePc(a)
              /\ UNCHANGED <<detected, Alarm1On, Alarm2On>>
    /\ UNCHANGED <<clockVars, Alarm1Time, Alarm1Date, Alarm2Time, Alarm2Date,
                   dispVars, dp_mask, tmr1Vars, leapVars, intVars, btnVars, budgetVars, folded, t0Vars>>

----------------------------------------------------------------------------
(* SetMenu *)

\* SetMenu: while (Switches() != 0x00) has read 0: back to the main loop
SetMenuReturn ==
    /\ At("setmenu")
    /\ {s \in SwitchValues : s = 0} # {}
    /\ pc' = "poll"
    /\ UNCHANGED <<clockVars, alarmVars, dispVars, dp_mask, tmr1Vars,
                   leapVars, intVars, playVars, btnVars, budgetVars, folded, t0Vars>>

\* SetMenuEnter without PIE1bits.TMR1IE = 0
SetMenuEnter_NoFreeze(f) ==
    /\ At("setmenu")
    /\ {s \in SwitchValues : s # 0} # {}
    /\ {s \in SwitchValues : SetMenuCase(s) = f} # {}
    /\ dp_mask' = FlashDpMask(dp_mask)
    /\ SetDisp(Num2Disp(FieldValue(f, MainTime, MainDate), FieldFlash(f, Disp)))
    /\ pc' = EditPc(f)
    /\ UNCHANGED <<clockVars, alarmVars, disp_index, tmr1Vars, leapVars, intVars,
                   playVars, btnVars, budgetVars, folded, t0Vars>>

\* SetMenu: the switches select field f of the clock-of-record: Timer1
\* interrupt disabled, flash, the field shown
SetMenuEnter(f) ==
    /\ At("setmenu")
    /\ {s \in SwitchValues : s # 0} # {}
    /\ {s \in SwitchValues : SetMenuCase(s) = f} # {}
    /\ TMR1IE' = 0
    /\ dp_mask' = FlashDpMask(dp_mask)
    /\ SetDisp(Num2Disp(FieldValue(f, MainTime, MainDate), FieldFlash(f, Disp)))
    /\ pc' = EditPc(f)
    /\ UNCHANGED <<clockVars, alarmVars, disp_index, TMR1IF, leapVars, intVars, playVars, btnVars, budgetVars, folded, t0Vars>>

\* SetMenu: one pass of the edit loop of field f with the switches still
\* on f; b are the button reads of the editor
SetMenuEdit(f) ==
    /\ At(EditPc(f))
    /\ {s \in SwitchValues : s = FieldCode(f)} # {}
    /\ \E b \in Presses :
         /\ b = NoPress \/ edits > 0
         /\ edits' = IF b = NoPress THEN edits ELSE edits - 1
         /\ LET T == IF f \in TimeFields THEN EditTime(f, MainTime, b)
                     ELSE MainTime
                D == IF f \in DateFields
                     THEN EditDate(f, MainDate, MainDate.month, b)
                     ELSE MainDate
            IN  /\ MainTime' = T
                /\ MainDate' = D
                /\ SetDisp(Num2Disp(FieldValue(f, T, D), Disp))
    /\ UNCHANGED <<mins_rollover, day_rollover, alarmVars, disp_index,
                   dp_mask, tmr1Vars, pc, leapVars, intVars, playVars, btnVars, ticks, cycles, folded, t0Vars>>

\* SetMenuExit without PIE1bits.TMR1IE = 1
SetMenuExit_NoResume(f) ==
    /\ At(EditPc(f))
    /\ {s \in SwitchValues : s # FieldCode(f)} # {}
    /\ pc' = "setmenu"
    /\ UNCHANGED <<clockVars, alarmVars, dispVars, dp_mask, tmr1Vars,
                   leapVars, intVars, playVars, btnVars, budgetVars, folded, t0Vars>>

\* SetMenu: the switches have left field f: Timer1 interrupt re-enabled
SetMenuExit(f) ==
    /\ At(EditPc(f))
    /\ {s \in SwitchValues : s # FieldCode(f)} # {}
    /\ TMR1IE' = 1
    /\ pc' = "setmenu"
    /\ UNCHANGED <<clockVars, alarmVars, dispVars, dp_mask, TMR1IF,
                   leapVars, intVars, playVars, btnVars, budgetVars, folded, t0Vars>>

\* SetMenu: case(ALARM1)
SetMenuAlarm1 ==
    /\ At("setmenu")
    /\ {s \in SwitchValues : s # 0} # {}
    /\ {s \in SwitchValues : SetMenuCase(s) = "alarm1"} # {}
    /\ dp_mask' = FlashDpMask(dp_mask)
    /\ SetDisp(Alarm1Flash(Disp))
    /\ pc' = "alarm1"
    /\ UNCHANGED <<clockVars, alarmVars, disp_index, tmr1Vars, leapVars, intVars, playVars, btnVars, budgetVars, folded, t0Vars>>

\* SetMenu: case(ALARM2)
SetMenuAlarm2 ==
    /\ At("setmenu")
    /\ {s \in SwitchValues : s # 0} # {}
    /\ {s \in SwitchValues : SetMenuCase(s) = "alarm2"} # {}
    /\ dp_mask' = FlashDpMask(dp_mask)
    /\ SetDisp(Alarm2Flash(Disp))
    /\ pc' = "alarm2"
    /\ UNCHANGED <<clockVars, alarmVars, disp_index, tmr1Vars, leapVars, intVars, playVars, btnVars, budgetVars, folded, t0Vars>>

\* SetMenu: default case, error code 2
SetMenuInvalid ==
    /\ At("setmenu")
    /\ {s \in SwitchValues : s # 0} # {}
    /\ {s \in SwitchValues : SetMenuCase(s) = "invalid"} # {}
    /\ SetDisp([U1 |-> DispChars.r, U2 |-> DispChars.E, LEDS |-> 2])
    /\ UNCHANGED <<clockVars, alarmVars, disp_index, dp_mask, tmr1Vars, pc,
                   leapVars, intVars, playVars, btnVars, budgetVars, folded, t0Vars>>

\* the two flag assignments of an alarm toggle pass: PB2 sets, PB1 clears
ToggleAlarm(on, p2, p1) ==
    LET a == IF p2 THEN 1 ELSE on
    IN  IF p1 THEN 0 ELSE a

\* the on / oF mnemonic left on the digits by a toggle pass
ToggleDisp(on, d) ==
    IF on = 1
    THEN [d EXCEPT !.U2 = DispChars.o, !.U1 = DispChars.n]
    ELSE [d EXCEPT !.U2 = DispChars.o, !.U1 = DispChars.F]

----------------------------------------------------------------------------
(* SetAlarm1 *)

\* SetMenu: while ((Switches() >> 7) == 1) has failed: leave the alarm menu
Alarm1Leave ==
    /\ At("alarm1")
    /\ {s \in SwitchValues : ShiftRight(s, 7) # 1} # {}
    /\ pc' = "setmenu"
    /\ UNCHANGED <<clockVars, alarmVars, dispVars, dp_mask, tmr1Vars,
                   leapVars, intVars, playVars, btnVars, budgetVars, folded, t0Vars>>

\* SetAlarm1: the switches select time field f of Alarm 1
SetAlarm1Enter(f) ==
    /\ At("alarm1")
    /\ {s \in SwitchValues : ShiftRight(s, 7) = 1} # {}
    /\ {s \in SwitchValues : SetAlarm1Case(s) = f} # {}
    /\ dp_mask' = FlashDpMask(dp_mask)
    /\ SetDisp(FieldFlash(f, Disp))
    /\ pc' = A1Pc(f)
    /\ UNCHANGED <<clockVars, alarmVars, disp_index, tmr1Vars, leapVars, intVars, playVars, btnVars, budgetVars, folded, t0Vars>>

\* SetAlarm1: one pass of the edit loop of field f
SetAlarm1Edit(f) ==
    /\ At(A1Pc(f))
    /\ {s \in SwitchValues : SetAlarm1Case(s) = f} # {}
    /\ \E b \in Presses :
         /\ b = NoPress \/ edits > 0
         /\ edits' = IF b = NoPress THEN edits ELSE edits - 1
         /\ LET T == EditTime(f, Alarm1Time, b)
            IN  /\ Alarm1Time' = T
                /\ SetDisp(Num2Disp(FieldValue(f, T, Alarm1Date), Disp))
    /\ UNCHANGED <<clockVars, Alarm1Date, Alarm1On, Alarm2Time, Alarm2Date,
                   Alarm2On, disp_index, dp_mask, tmr1Vars, pc, leapVars, intVars, playVars, btnVars, ticks, cycles, folded, t0Vars>>

\* SetAlarm1: case(0x80), the LEDs show the alarm marker
SetAlarm1ToggleEnter ==
    /\ At("alarm1")
    /\ {s \in SwitchValues : ShiftRight(s, 7) = 1} # {}
    /\ {s \in SwitchValues : SetAlarm1Case(s) = "toggle"} # {}
    /\ disp_LEDS' = 128
    /\ pc' = "a1_toggle"
    /\ UNCHANGED <<clockVars, alarmVars, disp_index, disp_U1, disp_U2,
                   dp_mask, tmr1Vars, leapVars, intVars, playVars, btnVars, budgetVars, folded, t0Vars>>

\* SetAlarm1: one pass of the toggle loop
SetAlarm1Toggle ==
    /\ At("a1_toggle")
    /\ {s \in SwitchValues : SetAlarm1Case(s) = "toggle"} # {}
    /\ \E p2 \in BOOLEAN, p1 \in BOOLEAN :
         /\ (~p1 /\ ~p2) \/ edits > 0
         /\ edits' = IF p1 \/ p2 THEN edits - 1 ELSE edits
         /\ Alarm1On' = ToggleAlarm(Alarm1On, p2, p1)
         /\ SetDisp(ToggleDisp(ToggleAlarm(Alarm1On, p2, p1), Disp))
    /\ UNCHANGED <<clockVars, Alarm1Time, Alarm1Date, Alarm2Time, Alarm2Date,
                   Alarm2On, disp_index, dp_mask, tmr1Vars, pc, leapVars, intVars, playVars, btnVars, ticks, cycles, folded, t0Vars>>

\* SetAlarm1: the switches have left field f: back to the loop in SetMenu
SetAlarm1Exit(f) ==
    /\ At(A1Pc(f))
    /\ {s \in SwitchValues : SetAlarm1Case(s) # f} # {}
    /\ pc' = "alarm1"
    /\ UNCHANGED <<clockVars, alarmVars, dispVars, dp_mask, tmr1Vars,
                   leapVars, intVars, playVars, btnVars, budgetVars, folded, t0Vars>>

\* SetAlarm1: the switches have left the toggle case: back to the loop in
\* SetMenu
SetAlarm1ToggleExit ==
    /\ At("a1_toggle")
    /\ {s \in SwitchValues : SetAlarm1Case(s) # "toggle"} # {}
    /\ pc' = "alarm1"
    /\ UNCHANGED <<clockVars, alarmVars, dispVars, dp_mask, tmr1Vars,
                   leapVars, intVars, playVars, btnVars, budgetVars, folded, t0Vars>>

\* SetAlarm1: default case, error code 4
SetAlarm1Invalid ==
    /\ At("alarm1")
    /\ {s \in SwitchValues : ShiftRight(s, 7) = 1} # {}
    /\ {s \in SwitchValues : SetAlarm1Case(s) = "invalid"} # {}
    /\ SetDisp([U1 |-> DispChars.r, U2 |-> DispChars.E, LEDS |-> 4])
    /\ UNCHANGED <<clockVars, alarmVars, disp_index, dp_mask, tmr1Vars, pc,
                   leapVars, intVars, playVars, btnVars, budgetVars, folded, t0Vars>>

----------------------------------------------------------------------------
(* SetAlarm2 *)

\* SetMenu: while ((Switches() >> 6) == 1) has failed: leave the alarm menu
Alarm2Leave ==
    /\ At("alarm2")
    /\ {s \in SwitchValues : ShiftRight(s, 6) # 1} # {}
    /\ pc' = "setmenu"
    /\ UNCHANGED <<clockVars, alarmVars, dispVars, dp_mask, tmr1Vars,
                   leapVars, intVars, playVars, btnVars, budgetVars, folded, t0Vars>>

\* SetAlarm2: the switches select field f of Alarm 2
SetAlarm2Enter(f) ==
    /\ At("alarm2")
    /\ {s \in SwitchValues : ShiftRight(s, 6) = 1} # {}
    /\ {s \in SwitchValues : SetAlarm2Case(s) = f} # {}
    /\ dp_mask' = FlashDpMask(dp_mask)
    /\ SetDisp(FieldFlash(f, Disp))
    /\ pc' = A2Pc(f)
    /\ UNCHANGED <<clockVars, alarmVars, disp_index, tmr1Vars, leapVars, intVars, playVars, btnVars, budgetVars, folded, t0Vars>>

\* SetAlarm2: one pass of the edit loop of field f
SetAlarm2Edit(f) ==
    /\ At(A2Pc(f))
    /\ {s \in SwitchValues : SetAlarm2Case(s) = f} # {}
    /\ \E b \in Presses :
         /\ b = NoPress \/ edits > 0
         /\ edits' = IF b = NoPress THEN edits ELSE edits - 1
         /\ LET T == IF f \in TimeFields THEN EditTime(f, Alarm2Time, b)
                     ELSE Alarm2Time
                D == IF f \in DateFields
                     THEN EditDate(f, Alarm2Date, MainDate.month, b)
                     ELSE Alarm2Date
            IN  /\ Alarm2Time' = T
                /\ Alarm2Date' = D
                /\ SetDisp(Num2Disp(FieldValue(f, T, D), Disp))
    /\ UNCHANGED <<clockVars, Alarm1Time, Alarm1Date, Alarm1On, Alarm2On,
                   disp_index, dp_mask, tmr1Vars, pc, leapVars, intVars, playVars, btnVars, ticks, cycles, folded, t0Vars>>

\* SetAlarm2: case(0x40), the LEDs show the alarm marker
SetAlarm2ToggleEnter ==
    /\ At("alarm2")
    /\ {s \in SwitchValues : ShiftRight(s, 6) = 1} # {}
    /\ {s \in SwitchValues : SetAlarm2Case(s) = "toggle"} # {}
    /\ disp_LEDS' = 64
    /\ pc' = "a2_toggle"
    /\ UNCHANGED <<clockVars, alarmVars, disp_index, disp_U1, disp_U2,
                   dp_mask, tmr1Vars, leapVars, intVars, playVars, btnVars, budgetVars, folded, t0Vars>>

\* SetAlarm2: one pass of the toggle loop
SetAlarm2Toggle ==
    /\ At("a2_toggle")
    /\ {s \in SwitchValues : SetAlarm2Case(s) = "toggle"} # {}
    /\ \E p2 \in BOOLEAN, p1 \in BOOLEAN :
         /\ (~p1 /\ ~p2) \/ edits > 0
         /\ edits' = IF p1 \/ p2 THEN edits - 1 ELSE edits
         /\ Alarm2On' = ToggleAlarm(Alarm2On, p2, p1)
         /\ SetDisp(ToggleDisp(ToggleAlarm(Alarm2On, p2, p1), Disp))
    /\ UNCHANGED <<clockVars, Alarm1Time, Alarm1Date, Alarm1On, Alarm2Time,
                   Alarm2Date, disp_index, dp_mask, tmr1Vars, pc, leapVars, intVars, playVars, btnVars, ticks, cycles, folded, t0Vars>>

\* SetAlarm2: the switches have left field f: back to the loop in SetMenu
SetAlarm2Exit(f) ==
    /\ At(A2Pc(f))
    /\ {s \in SwitchValues : SetAlarm2Case(s) # f} # {}
    /\ pc' = "alarm2"
    /\ UNCHANGED <<clockVars, alarmVars, dispVars, dp_mask, tmr1Vars,
                   leapVars, intVars, playVars, btnVars, budgetVars, folded, t0Vars>>

\* SetAlarm2: the switches have left the toggle case: back to the loop in
\* SetMenu
SetAlarm2ToggleExit ==
    /\ At("a2_toggle")
    /\ {s \in SwitchValues : SetAlarm2Case(s) # "toggle"} # {}
    /\ pc' = "alarm2"
    /\ UNCHANGED <<clockVars, alarmVars, dispVars, dp_mask, tmr1Vars,
                   leapVars, intVars, playVars, btnVars, budgetVars, folded, t0Vars>>

\* SetAlarm2: default case, error code 4
SetAlarm2Invalid ==
    /\ At("alarm2")
    /\ {s \in SwitchValues : ShiftRight(s, 6) = 1} # {}
    /\ {s \in SwitchValues : SetAlarm2Case(s) = "invalid"} # {}
    /\ SetDisp([U1 |-> DispChars.r, U2 |-> DispChars.E, LEDS |-> 4])
    /\ UNCHANGED <<clockVars, alarmVars, disp_index, dp_mask, tmr1Vars, pc,
                   leapVars, intVars, playVars, btnVars, budgetVars, folded, t0Vars>>

----------------------------------------------------------------------------
(* PB1pressed and PB2pressed.  b is 1 for PB1pressed and 2 for PB2pressed. *)
(* A call is cut at its two samples of the input port and at the end of   *)
(* its debounce wait; the input lines change between the statements.      *)

Buttons == {1, 2}

SamplePc(b)   == IF b = 1 THEN "pb1_sample" ELSE "pb2_sample"
WaitPc(b)     == IF b = 1 THEN "pb1_wait" ELSE "pb2_wait"
ResamplePc(b) == IF b = 1 THEN "pb1_resample" ELSE "pb2_resample"
DonePc(b)     == IF b = 1 THEN "pb1_done" ELSE "pb2_done"

Pb1Pcs == {"pb1_sample", "pb1_wait", "pb1_resample", "pb1_done"}
Pb2Pcs == {"pb2_sample", "pb2_wait", "pb2_resample", "pb2_done"}

\* the line read by the first if of the routine
FirstLine(b) == IF b = 1 THEN RJ5 ELSE RB0

\* the line read by the if that follows the debounce wait
SecondLine(b) == IF b = 1 THEN RJ0 ELSE RB0

\* the first sample: not asserted returns 0, asserted resets ms_count1
PBpressedSample(b) ==
    /\ At(SamplePc(b))
    /\ IF FirstLine(b) = 0
       THEN pc' = WaitPc(b) /\ UNCHANGED ret
       ELSE pc' = DonePc(b) /\ ret' = 0
    /\ UNCHANGED <<clockVars, alarmVars, dispVars, dp_mask, tmr1Vars,
                   leapVars, intVars, playVars, RJ5, RJ0, RB0, downs, reports,
                   calls, bounces, budgetVars, folded, t0Vars>>

\* while (ms_count1 < DEBOUNCE_DELAY) has ended
PBpressedWait(b) ==
    /\ At(WaitPc(b))
    /\ pc' = ResamplePc(b)
    /\ UNCHANGED <<clockVars, alarmVars, dispVars, dp_mask, tmr1Vars,
                   leapVars, intVars, playVars, btnVars, budgetVars, folded, t0Vars>>

\* a re-sample that reports pressed only if the last call did not
PBpressedResample_Latched(b) ==
    /\ At(ResamplePc(b))
    /\ ret' = IF SecondLine(b) = 0 /\ ret = 0 THEN 1 ELSE 0
    /\ reports' = IF SecondLine(b) = 0 /\ ret = 0 THEN reports + 1 ELSE reports
    /\ pc' = DonePc(b)
    /\ UNCHANGED <<clockVars, alarmVars, dispVars, dp_mask, tmr1Vars,
                   leapVars, intVars, playVars, RJ5, RJ0, RB0, downs, calls, bounces,
                   budgetVars, folded, t0Vars>>

\* the re-sample: asserted returns 1, not asserted returns 0
PBpressedResample(b) ==
    /\ At(ResamplePc(b))
    /\ ret' = IF SecondLine(b) = 0 THEN 1 ELSE 0
    /\ reports' = IF SecondLine(b) = 0 THEN reports + 1 ELSE reports
    /\ pc' = DonePc(b)
    /\ UNCHANGED <<clockVars, alarmVars, dispVars, dp_mask, tmr1Vars,
                   leapVars, intVars, playVars, RJ5, RJ0, RB0, downs, calls, bounces,
                   budgetVars, folded, t0Vars>>

\* the caller calls the routine again, as main does after its repeat delay
PBpressedCall(b) ==
    /\ At(DonePc(b))
    /\ calls > 0
    /\ calls' = calls - 1
    /\ pc' = SamplePc(b)
    /\ UNCHANGED <<clockVars, alarmVars, dispVars, dp_mask, tmr1Vars,
                   leapVars, intVars, playVars, RJ5, RJ0, RB0, ret, downs, reports,
                   bounces, budgetVars, folded, t0Vars>>

\* an input line changes level during a call or between two calls; downs
\* counts the times the line of the button whose routine is running is
\* asserted anew
LineChange ==
    /\ pc \in Pb1Pcs \cup Pb2Pcs
    /\ bounces > 0
    /\ bounces' = bounces - 1
    /\ \E l \in {"RJ5", "RJ0", "RB0"} :
         /\ RJ5' = IF l = "RJ5" THEN 1 - RJ5 ELSE RJ5
         /\ RJ0' = IF l = "RJ0" THEN 1 - RJ0 ELSE RJ0
         /\ RB0' = IF l = "RB0" THEN 1 - RB0 ELSE RB0
         /\ downs' = IF \/ (pc \in Pb1Pcs /\ l = "RJ5" /\ RJ5 = 1)
                        \/ (pc \in Pb2Pcs /\ l = "RB0" /\ RB0 = 1)
                     THEN downs + 1 ELSE downs
    /\ UNCHANGED <<clockVars, alarmVars, dispVars, dp_mask, tmr1Vars, pc,
                   leapVars, intVars, playVars, ret, reports, calls, budgetVars, folded, t0Vars>>

----------------------------------------------------------------------------
(* CalcLeapYear called on its own *)

CalcLeapYearCall ==
    /\ pc = "leap_call"
    /\ leap' = CalcLeapYear(year)
    /\ pc' = "leap_done"
    /\ UNCHANGED <<clockVars, alarmVars, dispVars, dp_mask, tmr1Vars, year, playVars, btnVars,
                   budgetVars, folded, t0Vars, intVars>>

----------------------------------------------------------------------------
(* Initial states *)

Time(h, m, s) == [hrs |-> h, mins |-> m, secs |-> s]
Date(d, m, y) == [day |-> d, month |-> m, year_short |-> y - 2000, year_long |-> y]

\* month length of a valid calendar date
MonthLength(m, y) ==
    IF m = 2 THEN (IF y % 4 = 0 /\ (y % 100 # 0 \/ y % 400 = 0) THEN 29 ELSE 28)
    ELSE IF m \in {4, 6, 9, 11} THEN 30 ELSE 31

\* the multiplexer is at its first bank, the millisecond counters are 0,
\* Timer0 has not fired and does not fire, no debounced read is under way
Timer0Idle ==
    /\ multiplex_index = 1
    /\ ms_count0 = 0
    /\ ms_count1 = 0
    /\ ms_count2 = 0
    /\ ms_count3 = 0
    /\ driven = <<>>
    /\ back = "none"
    /\ reads = <<>>
    /\ fires = 0

\* main 274-278: StartTimer0 has enabled the Timer0 interrupt and
\* enable_interrupts_all both priority levels
Started ==
    /\ GIE = 1
    /\ PEIE = 1
    /\ TMR0IE = 1

\* no alarm is sounding, no button is down, no debounce call and no CalcTime
\* is under way
Idle ==
    /\ Started
    /\ note = 0
    /\ detected = 0
    /\ RJ5 = 1
    /\ RJ0 = 1
    /\ RB0 = 1
    /\ ret = 0
    /\ downs = 0
    /\ reports = 0
    /\ calls = 0
    /\ bounces = 0
    /\ folded = 0
    /\ Timer0Idle

\* main: the state when the main loop is entered for the first time
Boot ==
    /\ MainTime = Time(0, 0, 0)
    /\ MainDate = Date(1, 1, 2016)
    /\ Alarm1Time = Time(0, 0, 0)
    /\ Alarm1Date = [day |-> 0, month |-> 0, year_short |-> 0, year_long |-> 0]
    /\ Alarm2Time = Time(0, 0, 0)
    /\ Alarm2Date = Date(1, 1, 2016)
    /\ Alarm1On = 0
    /\ Alarm2On = 0
    /\ mins_rollover = 0
    /\ day_rollover = 0
    /\ dp_mask = 255
    /\ disp_index = 0
    /\ disp_U1 = 255
    /\ disp_U2 = 255
    /\ disp_LEDS = 0
    /\ TMR1IE = 1
    /\ TMR1IF = 0
    /\ pc = "drain_time"
    /\ year = 0
    /\ leap = 0
    /\ Idle

Init ==
    /\ Boot
    /\ ticks = MaxTicks
    /\ cycles = MaxCycles
    /\ edits = MaxEdits

Next ==
    \/ Timer1Overflow
    \/ hp_secs_count_isr
    \/ MainCalcTime
    \/ CalcTimeClear
    \/ MainCalcDate
    \/ MainDisplay
    \/ MainSwitches
    \/ MainPoll
    \/ Poll1
    \/ SoundAlarm1
    \/ Poll2
    \/ SoundAlarm2
    \/ \E a \in Alarms : SoundWhile(a)
    \/ \E a \in Alarms : SoundTone(a)
    \/ \E a \in Alarms : SoundGap(a)
    \/ \E a \in Alarms : SoundCheck(a)
    \/ SetMenuReturn
    \/ \E f \in MainFields : SetMenuEnter(f)
    \/ \E f \in MainFields : SetMenuEdit(f)
    \/ \E f \in MainFields : SetMenuExit(f)
    \/ SetMenuAlarm1
    \/ SetMenuAlarm2
    \/ SetMenuInvalid
    \/ Alarm1Leave
    \/ \E f \in TimeFields : SetAlarm1Enter(f)
    \/ \E f \in TimeFields : SetAlarm1Edit(f)
    \/ \E f \in TimeFields : SetAlarm1Exit(f)
    \/ SetAlarm1ToggleEnter
    \/ SetAlarm1Toggle
    \/ SetAlarm1ToggleExit
    \/ SetAlarm1Invalid
    \/ Alarm2Leave
    \/ \E f \in MainFields : SetAlarm2Enter(f)
    \/ \E f \in MainFields : SetAlarm2Edit(f)
    \/ \E f \in MainFields : SetAlarm2Exit(f)
    \/ SetAlarm2ToggleEnter
    \/ SetAlarm2Toggle
    \/ SetAlarm2ToggleExit
    \/ SetAlarm2Invalid

Spec == Init /\ [][Next]_vars

----------------------------------------------------------------------------
(* The clock-of-record from boot: seconds ticks, the main loop and the six *)
(* editors of the clock-of-record.  The operator never selects an alarm    *)
(* menu or an unmapped switch pattern, so the alarms stay disabled.        *)

InitClock ==
    /\ Boot
    /\ ticks = ClockTicks
    /\ cycles = 0
    /\ edits = ClockEdits

NextClock ==
    \/ Timer1Overflow
    \/ hp_secs_count_isr
    \/ MainCalcTime
    \/ CalcTimeClear
    \/ MainCalcDate
    \/ MainDisplay
    \/ MainSwitches
    \/ MainPoll
    \/ Poll1
    \/ Poll2
    \/ SetMenuReturn
    \/ \E f \in MainFields : SetMenuEnter(f)
    \/ \E f \in MainFields : SetMenuEdit(f)
    \/ \E f \in MainFields : SetMenuExit(f)

SpecClock == InitClock /\ [][NextClock]_vars

----------------------------------------------------------------------------
(* The calendar engine from any valid clock-of-record.                     *)
(*                                                                         *)
(* The initial states are states of the running program at the top of the  *)
(* main loop: the editors can set every valid time and date, and the       *)
(* seconds ISR raises mins_rollover above 1 while the main loop is held in *)
(* SetMenu or in an alarm.  The display holds what the last pass of the    *)
(* main loop left on it.                                                   *)

\* years the year editor and CalcDate keep year_long in
Years == 2000..2099

ValidDates ==
    {Date(d, m, y) : d \in 1..31, m \in 1..12, y \in Years} \cap
    {dt \in [day : 1..31, month : 1..12, year_short : 0..99, year_long : Years] :
        dt.day <= MonthLength(dt.month, dt.year_long)}

\* the state of everything but the clock-of-record and pc
InitRest(p) ==
    /\ Alarm1Time = Time(0, 0, 0)
    /\ Alarm1Date = [day |-> 0, month |-> 0, year_short |-> 0, year_long |-> 0]
    /\ Alarm2Time = Time(0, 0, 0)
    /\ Alarm2Date = Date(1, 1, 2016)
    /\ Alarm1On = 0
    /\ Alarm2On = 0
    /\ day_rollover = 0
    /\ dp_mask = 255
    /\ disp_index = 0
    /\ LET d == IF mins_rollover >= 2
                THEN [U1 |-> DispChars.r, U2 |-> DispChars.E, LEDS |-> 2]
                ELSE CurrentDisplay(0, MainTime, MainDate,
                                    [U1 |-> 255, U2 |-> 255, LEDS |-> 0])
       IN  /\ disp_U1 = d.U1
           /\ disp_U2 = d.U2
           /\ disp_LEDS = d.LEDS
    /\ TMR1IE = 1
    /\ TMR1IF = 0
    /\ pc = p
    /\ year = 0
    /\ leap = 0
    /\ Idle
    /\ ticks = CalcTicks
    /\ cycles = 0
    /\ edits = 0

\* every second of a few minutes, with and without a rollover pending
InitSeconds ==
    /\ MainTime \in {Time(h, m, s) : h \in {0, 23}, m \in {0, 58, 59}, s \in 0..59}
    /\ MainDate = Date(1, 1, 2016)
    /\ mins_rollover \in {0, 1}

\* every minute of a few hours, with every pending rollover count
InitMinutes ==
    /\ MainTime \in {Time(h, m, s) : h \in {0, 22, 23}, m \in 0..59, s \in {0, 59}}
    /\ MainDate \in {Date(1, 1, 2016), Date(31, 12, 2016)}
    /\ mins_rollover \in 0..MaxRollover

\* the last second of every valid day
InitDays ==
    /\ MainTime = Time(23, 59, 59)
    /\ MainDate \in ValidDates
    /\ mins_rollover = 0

InitCalc ==
    /\ InitSeconds \/ InitMinutes \/ InitDays
    /\ InitRest("drain_time")

NextCalc ==
    \/ Timer1Overflow
    \/ hp_secs_count_isr
    \/ MainCalcTime
    \/ CalcTimeClear
    \/ MainCalcDate

SpecCalc == InitCalc /\ [][NextCalc]_vars

----------------------------------------------------------------------------
(* An alarm poll from any setting of the alarms *)

InitAlarm ==
    /\ MainTime \in {Time(h, m, s) : h \in {0, 23}, m \in {0, 59}, s \in {0, 59}}
    /\ Alarm1Time \in {Time(h, m, s) : h \in {0, 23}, m \in {0, 59}, s \in {0, 59}}
    /\ Alarm2Time \in {Time(0, 0, 0), Time(23, 59, 59)}
    /\ MainDate \in {Date(1, 1, 2016), Date(2, 1, 2016), Date(1, 2, 2016), Date(1, 1, 2017)}
    /\ Alarm2Date \in {Date(1, 1, 2016), Date(2, 1, 2016), Date(1, 2, 2016), Date(1, 1, 2017)}
    /\ Alarm1Date = [day |-> 0, month |-> 0, year_short |-> 0, year_long |-> 0]
    /\ Alarm1On \in {0, 1}
    /\ Alarm2On \in {0, 1}
    /\ mins_rollover = 0
    /\ day_rollover = 0
    /\ dp_mask = 255
    /\ disp_index = 0
    /\ LET d == CurrentDisplay(0, MainTime, MainDate,
                               [U1 |-> 255, U2 |-> 255, LEDS |-> 0])
       IN  /\ disp_U1 = d.U1
           /\ disp_U2 = d.U2
           /\ disp_LEDS = d.LEDS
    /\ TMR1IE = 1
    /\ TMR1IF = 0
    /\ pc = "poll1"
    /\ year = 0
    /\ leap = 0
    /\ Idle
    /\ ticks = CalcTicks
    /\ cycles = 0
    /\ edits = 0

NextAlarm ==
    \/ Timer1Overflow
    \/ hp_secs_count_isr
    \/ Poll1
    \/ SoundAlarm1
    \/ Poll2
    \/ SoundAlarm2
    \/ \E a \in Alarms : SoundWhile(a)
    \/ \E a \in Alarms : SoundTone(a)
    \/ \E a \in Alarms : SoundGap(a)
    \/ \E a \in Alarms : SoundCheck(a)

SpecAlarm == InitAlarm /\ [][NextAlarm]_vars

----------------------------------------------------------------------------
(* CalcLeapYear on every year of two centuries *)

InitLeap ==
    /\ year \in 1900..2100
    /\ leap = 0
    /\ Idle
    /\ pc = "leap_call"
    /\ MainTime = Time(0, 0, 0)
    /\ MainDate = Date(1, 1, 2016)
    /\ Alarm1Time = Time(0, 0, 0)
    /\ Alarm1Date = [day |-> 0, month |-> 0, year_short |-> 0, year_long |-> 0]
    /\ Alarm2Time = Time(0, 0, 0)
    /\ Alarm2Date = Date(1, 1, 2016)
    /\ Alarm1On = 0
    /\ Alarm2On = 0
    /\ mins_rollover = 0
    /\ day_rollover = 0
    /\ dp_mask = 255
    /\ disp_index = 0
    /\ disp_U1 = 255
    /\ disp_U2 = 255
    /\ disp_LEDS = 0
    /\ TMR1IE = 1
    /\ TMR1IF = 0
    /\ ticks = 0
    /\ cycles = 0
    /\ edits = 0

NextLeap == CalcLeapYearCall

SpecLeap == InitLeap /\ [][NextLeap]_vars

----------------------------------------------------------------------------
(* Calls of PB1pressed or of PB2pressed in a row, from any level of the    *)
(* input lines.                                                            *)

InitButton ==
    /\ pc \in {"pb1_sample", "pb2_sample"}
    /\ RJ5 \in {0, 1}
    /\ RJ0 \in {0, 1}
    /\ RB0 \in {0, 1}
    /\ ret = 0
    /\ downs = IF (pc = "pb1_sample" /\ RJ5 = 0) \/ (pc = "pb2_sample" /\ RB0 = 0)
               THEN 1 ELSE 0
    /\ reports = 0
    /\ calls = MaxCalls
    /\ bounces = MaxBounces
    /\ folded = 0
    /\ Timer0Idle
    /\ Started
    /\ note = 0
    /\ detected = 0
    /\ MainTime = Time(0, 0, 0)
    /\ MainDate = Date(1, 1, 2016)
    /\ Alarm1Time = Time(0, 0, 0)
    /\ Alarm1Date = [day |-> 0, month |-> 0, year_short |-> 0, year_long |-> 0]
    /\ Alarm2Time = Time(0, 0, 0)
    /\ Alarm2Date = Date(1, 1, 2016)
    /\ Alarm1On = 0
    /\ Alarm2On = 0
    /\ mins_rollover = 0
    /\ day_rollover = 0
    /\ dp_mask = 255
    /\ disp_index = 0
    /\ disp_U1 = DispNums[2]
    /\ disp_U2 = DispNums[1]
    /\ disp_LEDS = DAY
    /\ TMR1IE = 1
    /\ TMR1IF = 0
    /\ year = 0
    /\ leap = 0
    /\ ticks = 0
    /\ cycles = 0
    /\ edits = 0

NextButton ==
    \/ \E b \in Buttons : PBpressedSample(b)
    \/ \E b \in Buttons : PBpressedWait(b)
    \/ \E b \in Buttons : PBpressedResample(b)
    \/ \E b \in Buttons : PBpressedCall(b)
    \/ LineChange

SpecButton == InitButton /\ [][NextButton]_vars

----------------------------------------------------------------------------
(* CurrentDisplay, called by the main loop, on every value of a char in   *)
(* the field it shows and on indices inside and outside 0..5.             *)

\* the field of the clock-of-record at each index of the display cycle
IndexField == <<"day", "month", "year", "hrs", "mins", "secs">>

\* indices passed to CurrentDisplay
Indices == {0, 1, 2, 3, 4, 5, 6, 7, 255}

InitDisplay ==
    /\ disp_index \in Indices
    /\ \E v \in 0..255 :
         /\ disp_index \notin 0..5 => v = 0
         /\ MainTime = [hrs  |-> IF disp_index = 3 THEN v ELSE 0,
                        mins |-> IF disp_index = 4 THEN v ELSE 0,
                        secs |-> IF disp_index = 5 THEN v ELSE 0]
         /\ MainDate = [day   |-> IF disp_index = 0 THEN v ELSE 1,
                        month |-> IF disp_index = 1 THEN v ELSE 1,
                        year_short |-> IF disp_index = 2 THEN v ELSE 16,
                        year_long  |-> IF disp_index = 2 THEN 2000 + v ELSE 2016]
    /\ Alarm1Time = Time(0, 0, 0)
    /\ Alarm1Date = [day |-> 0, month |-> 0, year_short |-> 0, year_long |-> 0]
    /\ Alarm2Time = Time(0, 0, 0)
    /\ Alarm2Date = Date(1, 1, 2016)
    /\ Alarm1On = 0
    /\ Alarm2On = 0
    /\ mins_rollover = 0
    /\ day_rollover = 0
    /\ dp_mask = 255
    /\ disp_U1 = 255
    /\ disp_U2 = 255
    /\ disp_LEDS = 0
    /\ TMR1IE = 1
    /\ TMR1IF = 0
    /\ pc = "display"
    /\ year = 0
    /\ leap = 0
    /\ Idle
    /\ ticks = 0
    /\ cycles = 0
    /\ edits = 0

NextDisplay == MainDisplay

SpecDisplay == InitDisplay /\ [][NextDisplay]_vars

----------------------------------------------------------------------------
(* The field editors with the buttons held.  The main context is inside    *)
(* the edit loop of one field of the clock-of-record or of Alarm 2; the    *)
(* three input lines keep their level for the whole of a pass, so each     *)
(* debounced read of a pass returns what the level of its lines gives.     *)

\* passes of an edit loop
EditPasses == 2

\* PB2pressed with RB0 steady: both samples read RB0
Pb2Held == RB0 = 0

\* PB1pressed with RJ5 and RJ0 steady: the first sample reads RJ5, the
\* sample after the wait reads RJ0
Pb1Held == RJ5 = 0 /\ RJ0 = 0

\* the four reads of an editor: two PB2pressed calls, then two PB1pressed
HeldReads == [k \in 1..4 |-> IF k <= 2 THEN Pb2Held ELSE Pb1Held]

\* SetMenu: one pass of the edit loop of field f with the lines steady
SetMenuEditHeld(f) ==
    /\ At(EditPc(f))
    /\ {s \in SwitchValues : s = FieldCode(f)} # {}
    /\ edits > 0
    /\ edits' = edits - 1
    /\ LET T == IF f \in TimeFields THEN EditTime(f, MainTime, HeldReads)
                ELSE MainTime
           D == IF f \in DateFields
                THEN EditDate(f, MainDate, MainDate.month, HeldReads)
                ELSE MainDate
       IN  /\ MainTime' = T
           /\ MainDate' = D
           /\ SetDisp(Num2Disp(FieldValue(f, T, D), Disp))
    /\ UNCHANGED <<mins_rollover, day_rollover, alarmVars, disp_index,
                   dp_mask, tmr1Vars, pc, leapVars, intVars, playVars, btnVars, ticks, cycles, folded, t0Vars>>

\* SetAlarm2: one pass of the edit loop of field f with the lines steady
SetAlarm2EditHeld(f) ==
    /\ At(A2Pc(f))
    /\ {s \in SwitchValues : SetAlarm2Case(s) = f} # {}
    /\ edits > 0
    /\ edits' = edits - 1
    /\ LET T == IF f \in TimeFields THEN EditTime(f, Alarm2Time, HeldReads)
                ELSE Alarm2Time
           D == IF f \in DateFields
                THEN EditDate(f, Alarm2Date, MainDate.month, HeldReads)
                ELSE Alarm2Date
       IN  /\ Alarm2Time' = T
           /\ Alarm2Date' = D
           /\ SetDisp(Num2Disp(FieldValue(f, T, D), Disp))
    /\ UNCHANGED <<clockVars, Alarm1Time, Alarm1Date, Alarm1On, Alarm2On,
                   disp_index, dp_mask, tmr1Vars, pc, leapVars, intVars, playVars, btnVars, ticks, cycles, folded, t0Vars>>

\* years at both ends of the range of the year editor, leap and non-leap
EditYears == {2000, 2001, 2016, 2017, 2098, 2099}

\* days at both ends of every month
EditDays == {1, 2, 15, 27, 28, 29, 30, 31}

\* valid dates an editor is entered with
EditDates ==
    {dt \in {Date(d, m, y) : d \in EditDays, m \in 1..12, y \in EditYears} :
        dt.day <= MonthLength(dt.month, dt.year_long)}

\* times an editor is entered with: field f over its whole range
EditTimes(f) ==
    CASE f = "secs" -> {Time(12, 30, v) : v \in 0..59}
      [] f = "mins" -> {Time(12, v, 30) : v \in 0..59}
      [] f = "hrs"  -> {Time(v, 30, 30) : v \in 0..23}
      [] OTHER      -> {Time(12, 30, 30)}

\* the edit loop of field f of record rec ("main" or "alarm2") has been
\* entered: the record edited holds any valid value, the mnemonic has been
\* flashed over the display of the main loop
InitEditOf(rec, f) ==
    /\ pc = IF rec = "main" THEN EditPc(f) ELSE A2Pc(f)
    /\ IF rec = "main"
       THEN /\ MainTime \in EditTimes(f)
            /\ MainDate \in (IF f \in DateFields THEN EditDates
                             ELSE {Date(1, 1, 2016)})
            /\ Alarm2Time = Time(0, 0, 0)
            /\ Alarm2Date = Date(1, 1, 2016)
       ELSE /\ MainTime = Time(12, 30, 30)
            /\ MainDate \in (IF f = "day"
                             THEN {Date(1, m, 2016) : m \in 1..12}
                             ELSE {Date(1, 1, 2016)})
            /\ Alarm2Time \in EditTimes(f)
            /\ Alarm2Date \in (IF f \in DateFields THEN EditDates
                               ELSE {Date(1, 1, 2016)})
    /\ TMR1IE = IF rec = "main" THEN 0 ELSE 1
    /\ dp_mask = IF rec = "main" THEN FlashDpMask(255)
                 ELSE FlashDpMask(FlashDpMask(255))
    /\ LET d0 == CurrentDisplay(0, MainTime, MainDate,
                                [U1 |-> 255, U2 |-> 255, LEDS |-> 0])
           d  == IF rec = "main"
                 THEN Num2Disp(FieldValue(f, MainTime, MainDate), FieldFlash(f, d0))
                 ELSE FieldFlash(f, Alarm2Flash(d0))
       IN  /\ disp_U1 = d.U1
           /\ disp_U2 = d.U2
           /\ disp_LEDS = d.LEDS

InitEdit ==
    /\ \E rec \in {"main", "alarm2"}, f \in MainFields : InitEditOf(rec, f)
    /\ Alarm1Time = Time(0, 0, 0)
    /\ Alarm1Date = [day |-> 0, month |-> 0, year_short |-> 0, year_long |-> 0]
    /\ Alarm1On = 0
    /\ Alarm2On = 0
    /\ mins_rollover = 0
    /\ day_rollover = 0
    /\ disp_index = 0
    /\ TMR1IF = 0
    /\ year = 0
    /\ leap = 0
    /\ note = 0
    /\ detected = 0
    /\ RJ5 \in {0, 1}
    /\ RJ0 \in {0, 1}
    /\ RB0 \in {0, 1}
    /\ ret = 0
    /\ downs = 0
    /\ reports = 0
    /\ calls = 0
    /\ bounces = 0
    /\ folded = 0
    /\ Timer0Idle
    /\ Started
    /\ ticks = 0
    /\ cycles = 0
    /\ edits = EditPasses

NextEdit ==
    \/ \E f \in MainFields : SetMenuEditHeld(f)
    \/ \E f \in MainFields : SetAlarm2EditHeld(f)

SpecEdit == InitEdit /\ [][NextEdit]_vars

----------------------------------------------------------------------------
(* Timer0: the display multiplexer and the four millisecond counters, with *)
(* the statements of the main context that test and reset the counters.    *)
(* The low-priority interrupt is served between any two statements of the  *)
(* main context.  A statement that makes debounced button reads (the two   *)
(* button blocks of the main loop, the conditions of the playing, tone and *)
(* gap loops, the break test of a macro, an editor) is a site: back names  *)
(* it while its calls of PB1pressed / PB2pressed run, reads collects what  *)
(* they return, and the statement goes on at "q_done".  The input lines    *)
(* keep the level they have; the bouncing of the lines during one call is  *)
(* the subject of SpecButton.                                              *)

DEBOUNCE_DELAY == 25
DISPLAY_CYCLE_DELAY == 3000
ALARM_POLL_RATE == 50
SEMIBREVE == 800
MINIM == SEMIBREVE \div 2
CROTCHET == MINIM \div 2
QUAVER == CROTCHET \div 2
SEMIQUAVER == QUAVER \div 2

\* Timer0 overflows of a behaviour
MaxFires == 3

\* fields of the clock-of-record whose editors are entered
EditedFields == {"secs", "day"}

muxVars == <<multiplex_index, driven, fires>>
ctrVars == <<ms_count0, ms_count1, ms_count2, ms_count3>>
qVars   == <<back, reads>>

\* Timer0_isr whose case 3 does not reset multiplex_index
Timer0_isr_NoReset(i, dr, d, mask) ==
    CASE i = 1 -> [index |-> ToChar(1 + 1), driven |-> <<1, 1, 1, d.LEDS>>]
      [] i = 2 -> [index |-> ToChar(2 + 1),
                   driven |-> <<0, 1, 0, BitAnd(d.U1, mask)>>]
      [] i = 3 -> [index |-> ToChar(3 + 1), driven |-> <<1, 0, 0, d.U2>>]
      [] OTHER -> [index |-> ToChar(0 + 1), driven |-> dr]

\* Timer0_isr, the switch on multiplex_index and multiplex_index++: the new
\* index and <<LH0, LH1, LA4, LATF>>; d is the display, dr the outputs so far
Timer0_isr(i, dr, d, mask) ==
    CASE i = 1 -> [index |-> ToChar(1 + 1), driven |-> <<1, 1, 1, d.LEDS>>]
      [] i = 2 -> [index |-> ToChar(2 + 1),
                   driven |-> <<0, 1, 0, BitAnd(d.U1, mask)>>]
      [] i = 3 -> [index |-> ToChar(0 + 1), driven |-> <<1, 0, 0, d.U2>>]
      [] OTHER -> [index |-> ToChar(0 + 1), driven |-> dr]

\* lp_isr: Timer0 has overflowed; Timer0_isr drives a bank and increments
\* the four counters
lp_isr ==
    /\ GIE = 1 /\ PEIE = 1 /\ TMR0IE = 1
    /\ fires > 0
    /\ fires' = fires - 1
    /\ LET r == Timer0_isr(multiplex_index, driven, Disp, dp_mask)
       IN  /\ multiplex_index' = r.index
           /\ driven' = r.driven
    /\ ms_count0' = ToUInt(ms_count0 + 1)
    /\ ms_count1' = ToUInt(ms_count1 + 1)
    /\ ms_count2' = ToUInt(ms_count2 + 1)
    /\ ms_count3' = ToUInt(ms_count3 + 1)
    /\ UNCHANGED <<clockVars, alarmVars, dispVars, dp_mask, tmr1Vars, pc,
                   leapVars, intVars, playVars, btnVars, budgetVars, folded, qVars>>

\* the debounced reads of a site, in the order the statement makes them
SiteOrder(site) ==
    CASE site = "pb1" -> <<1, 1>>
      [] site = "pb2" -> <<2, 2>>
      [] site \in {"while1", "while2"} -> <<2, 1>>
      [] site \in {"tone1", "tone2", "gap1", "gap2", "check1", "check2"}
           -> <<1, 2>>
      [] OTHER -> <<2, 2, 1, 1>>

\* how the statement of a site combines its reads: the second read of a
\* button block is made if the first returned 1 ("and"), a loop condition
\* or break test stops at the first read that returns 1 ("or"), an editor
\* makes its four reads whatever they return ("all")
SiteMode(site) ==
    CASE site \in {"pb1", "pb2"} -> "and"
      [] site \in {"while1", "while2", "tone1", "tone2", "gap1", "gap2",
                   "check1", "check2"} -> "or"
      [] OTHER -> "all"

\* the statement makes no further read after the reads rs
QueryOver(site, rs) ==
    \/ Len(rs) = Len(SiteOrder(site))
    \/ rs # <<>> /\ SiteMode(site) = "or" /\ rs[Len(rs)]
    \/ rs # <<>> /\ SiteMode(site) = "and" /\ ~rs[Len(rs)]

\* where the main context goes when a read has returned
AfterRead(site, rs) ==
    IF QueryOver(site, rs) THEN "q_done"
    ELSE SamplePc(SiteOrder(site)[Len(rs) + 1])

\* one of the reads returned 1
AnyPressed(rs) == \E k \in 1..Len(rs) : rs[k]

\* the statement at site makes its first debounced read
StartQuery(site) ==
    /\ pc' = SamplePc(SiteOrder(site)[1])
    /\ back' = site
    /\ reads' = <<>>

\* a first sample that calls disable_interrupts_all before its wait
DebounceSample_DisablesInterrupts(b) ==
    /\ At(SamplePc(b))
    /\ IF FirstLine(b) = 0
       THEN /\ ms_count1' = 0
            /\ PEIE' = 0
            /\ GIE' = 0
            /\ pc' = WaitPc(b)
            /\ UNCHANGED <<ret, reads>>
       ELSE /\ ret' = 0
            /\ reads' = Append(reads, FALSE)
            /\ pc' = AfterRead(back, Append(reads, FALSE))
            /\ UNCHANGED <<ms_count1, PEIE, GIE>>
    /\ UNCHANGED <<clockVars, alarmVars, dispVars, dp_mask, tmr1Vars,
                   leapVars, TMR0IE, playVars, RJ5, RJ0, RB0, downs, reports,
                   calls, bounces, budgetVars, folded, muxVars,
                   ms_count0, ms_count2, ms_count3, back>>

\* a first sample that starts the debounce wait by resetting ms_count3
DebounceSample_SharedCounter(b) ==
    /\ At(SamplePc(b))
    /\ IF FirstLine(b) = 0
       THEN /\ ms_count3' = 0
            /\ pc' = WaitPc(b)
            /\ UNCHANGED <<ret, reads, ms_count1>>
       ELSE /\ ret' = 0
            /\ reads' = Append(reads, FALSE)
            /\ pc' = AfterRead(back, Append(reads, FALSE))
            /\ UNCHANGED <<ms_count1, ms_count3>>
    /\ UNCHANGED <<clockVars, alarmVars, dispVars, dp_mask, tmr1Vars,
                   leapVars, intVars, playVars, RJ5, RJ0, RB0, downs, reports,
                   calls, bounces, budgetVars, folded, muxVars,
                   ms_count0, ms_count2, back>>

\* PBxpressed: the first sample; asserted resets ms_count1 and waits, not
\* asserted returns 0
DebounceSample(b) ==
    /\ At(SamplePc(b))
    /\ IF FirstLine(b) = 0
       THEN /\ ms_count1' = 0
            /\ pc' = WaitPc(b)
            /\ UNCHANGED <<ret, reads>>
       ELSE /\ ret' = 0
            /\ reads' = Append(reads, FALSE)
            /\ pc' = AfterRead(back, Append(reads, FALSE))
            /\ UNCHANGED ms_count1
    /\ UNCHANGED <<clockVars, alarmVars, dispVars, dp_mask, tmr1Vars,
                   leapVars, intVars, playVars, RJ5, RJ0, RB0, downs, reports,
                   calls, bounces, budgetVars, folded, muxVars,
                   ms_count0, ms_count2, ms_count3, back>>

\* PBxpressed: while (ms_count1 < DEBOUNCE_DELAY) ends
DebounceWait(b) ==
    /\ At(WaitPc(b))
    /\ ms_count1 >= DEBOUNCE_DELAY
    /\ pc' = ResamplePc(b)
    /\ UNCHANGED <<clockVars, alarmVars, dispVars, dp_mask, tmr1Vars,
                   leapVars, intVars, playVars, btnVars, budgetVars, folded, t0Vars>>

\* PBxpressed: the sample after the wait; asserted returns 1
DebounceResample(b) ==
    /\ At(ResamplePc(b))
    /\ LET r == SecondLine(b) = 0
       IN  /\ ret' = IF r THEN 1 ELSE 0
           /\ reads' = Append(reads, r)
           /\ pc' = AfterRead(back, Append(reads, r))
    /\ UNCHANGED <<clockVars, alarmVars, dispVars, dp_mask, tmr1Vars,
                   leapVars, intVars, playVars, RJ5, RJ0, RB0, downs, reports,
                   calls, bounces, budgetVars, folded, muxVars, ctrVars, back>>

\* main 295-304: the display-cycle time-out, then the first read of the
\* PB1 block
DisplayCycle ==
    /\ At("display")
    /\ IF ms_count0 >= DISPLAY_CYCLE_DELAY
       THEN /\ ms_count0' = 0
            /\ disp_index' = IndexUp(disp_index)
       ELSE UNCHANGED <<ms_count0, disp_index>>
    /\ StartQuery("pb1")
    /\ UNCHANGED <<clockVars, alarmVars, disp_U1, disp_U2, disp_LEDS, dp_mask,
                   tmr1Vars, leapVars, intVars, playVars, btnVars, budgetVars, folded,
                   muxVars, ms_count1, ms_count2, ms_count3>>

\* main 304-316: PB1 read pressed twice steps the index up and restarts the
\* display cycle; then the first read of the PB2 block
DisplayPb1 ==
    /\ At("q_done")
    /\ back = "pb1"
    /\ IF reads = <<TRUE, TRUE>>
       THEN /\ ms_count0' = 0
            /\ disp_index' = IndexUp(disp_index)
       ELSE UNCHANGED <<ms_count0, disp_index>>
    /\ StartQuery("pb2")
    /\ UNCHANGED <<clockVars, alarmVars, disp_U1, disp_U2, disp_LEDS, dp_mask,
                   tmr1Vars, leapVars, intVars, playVars, btnVars, budgetVars, folded,
                   muxVars, ms_count1, ms_count2, ms_count3>>

\* main 316-328: PB2 read pressed twice steps the index down and restarts
\* the display cycle; then CurrentDisplay
DisplayPb2 ==
    /\ At("q_done")
    /\ back = "pb2"
    /\ LET i == IF reads = <<TRUE, TRUE>> THEN IndexDown(disp_index)
                ELSE disp_index
       IN  /\ ms_count0' = IF reads = <<TRUE, TRUE>> THEN 0 ELSE ms_count0
           /\ disp_index' = i
           /\ SetDisp(CurrentDisplay(i, MainTime, MainDate, Disp))
    /\ pc' = "switches"
    /\ back' = "none"
    /\ reads' = <<>>
    /\ UNCHANGED <<clockVars, alarmVars, dp_mask, tmr1Vars, leapVars, intVars,
                   playVars, btnVars, budgetVars, folded, muxVars,
                   ms_count1, ms_count2, ms_count3>>

\* main: if (ms_count2 >= ALARM_POLL_RATE)
PollDue ==
    /\ At("poll")
    /\ pc' = IF ms_count2 >= ALARM_POLL_RATE THEN "poll1" ELSE "drain_time"
    /\ UNCHANGED <<clockVars, alarmVars, dispVars, dp_mask, tmr1Vars,
                   leapVars, intVars, playVars, btnVars, budgetVars, folded, t0Vars>>

\* main: the Alarm 2 comparison of an alarm poll
PollSecond ==
    /\ At("poll2")
    /\ pc' = IF Alarm2Due(MainTime, MainDate, Alarm2Time, Alarm2Date, Alarm2On)
             THEN "sound2" ELSE "poll_end"
    /\ UNCHANGED <<clockVars, alarmVars, dispVars, dp_mask, tmr1Vars,
                   leapVars, intVars, playVars, btnVars, budgetVars, folded, t0Vars>>

\* main: ms_count2 = 0, the last statement of an alarm poll
PollReset ==
    /\ At("poll_end")
    /\ ms_count2' = 0
    /\ pc' = "drain_time"
    /\ UNCHANGED <<clockVars, alarmVars, dispVars, dp_mask, tmr1Vars,
                   leapVars, intVars, playVars, btnVars, budgetVars, folded, muxVars,
                   ms_count0, ms_count1, ms_count3, qVars>>

\* length of the tone or pause of each macro of SoundAlarm1
Lengths1 ==
    <<CROTCHET, CROTCHET, CROTCHET, CROTCHET, MINIM, QUAVER, QUAVER,
      CROTCHET, CROTCHET, CROTCHET, CROTCHET, MINIM, MINIM, CROTCHET,
      CROTCHET, CROTCHET, CROTCHET, MINIM, MINIM, CROTCHET, CROTCHET,
      CROTCHET, CROTCHET, MINIM, MINIM, CROTCHET, CROTCHET, CROTCHET,
      CROTCHET, MINIM, MINIM, CROTCHET, CROTCHET, CROTCHET, CROTCHET,
      MINIM, MINIM, CROTCHET, CROTCHET, CROTCHET, CROTCHET, CROTCHET,
      CROTCHET, CROTCHET, CROTCHET, QUAVER, QUAVER, CROTCHET, CROTCHET,
      CROTCHET, CROTCHET, MINIM, MINIM, CROTCHET, CROTCHET, MINIM,
      CROTCHET, CROTCHET, MINIM, CROTCHET, CROTCHET, CROTCHET,
      CROTCHET, SEMIBREVE, CROTCHET, CROTCHET, CROTCHET, CROTCHET,
      CROTCHET, CROTCHET, CROTCHET, QUAVER, QUAVER, CROTCHET, CROTCHET,
      CROTCHET, CROTCHET, MINIM, MINIM>>

\* delay after the tone of each GEN_NOTE of SoundAlarm1; 0 stands for a
\* GEN_PAUSE, which has none
Delays1 ==
    <<QUAVER, QUAVER, QUAVER, QUAVER, CROTCHET, SEMIQUAVER, QUAVER,
      QUAVER, QUAVER, QUAVER, QUAVER, QUAVER, 0, QUAVER, QUAVER,
      QUAVER, QUAVER, QUAVER, 0, QUAVER, QUAVER, QUAVER, QUAVER,
      QUAVER, 0, QUAVER, QUAVER, QUAVER, QUAVER, QUAVER, 0, QUAVER,
      QUAVER, QUAVER, QUAVER, QUAVER, 0, QUAVER, QUAVER, QUAVER,
      QUAVER, QUAVER, QUAVER, QUAVER, QUAVER, SEMIQUAVER, QUAVER,
      QUAVER, QUAVER, QUAVER, QUAVER, CROTCHET, QUAVER, QUAVER, QUAVER,
      QUAVER, QUAVER, QUAVER, QUAVER, QUAVER, SEMIQUAVER, QUAVER,
      QUAVER, QUAVER, QUAVER, QUAVER, QUAVER, QUAVER, QUAVER, QUAVER,
      QUAVER, SEMIQUAVER, QUAVER, QUAVER, QUAVER, QUAVER, QUAVER,
      QUAVER, QUAVER>>

\* length of the tone or pause of each macro of SoundAlarm2
Lengths2 ==
    <<CROTCHET, CROTCHET, CROTCHET, CROTCHET, CROTCHET, CROTCHET,
      CROTCHET, CROTCHET, CROTCHET, CROTCHET, CROTCHET, CROTCHET,
      CROTCHET, CROTCHET, MINIM, CROTCHET, CROTCHET, CROTCHET,
      CROTCHET, CROTCHET, CROTCHET, CROTCHET, CROTCHET, CROTCHET,
      CROTCHET, CROTCHET, CROTCHET, CROTCHET, CROTCHET, MINIM,
      CROTCHET, CROTCHET, CROTCHET, CROTCHET, CROTCHET, QUAVER, QUAVER,
      CROTCHET, CROTCHET, CROTCHET, QUAVER, QUAVER, CROTCHET, CROTCHET,
      CROTCHET, CROTCHET, MINIM, CROTCHET, CROTCHET, CROTCHET,
      CROTCHET, CROTCHET, CROTCHET, CROTCHET, CROTCHET, CROTCHET,
      CROTCHET, CROTCHET, CROTCHET, CROTCHET, CROTCHET, MINIM>>

\* delay after the tone of each GEN_NOTE of SoundAlarm2; 0 stands for a
\* GEN_PAUSE, which has none
Delays2 ==
    <<QUAVER, QUAVER, QUAVER, QUAVER, QUAVER, QUAVER, QUAVER, QUAVER,
      QUAVER, QUAVER, QUAVER, QUAVER, QUAVER, QUAVER, QUAVER, QUAVER,
      QUAVER, QUAVER, QUAVER, QUAVER, QUAVER, QUAVER, QUAVER, QUAVER,
      QUAVER, QUAVER, QUAVER, QUAVER, QUAVER, CROTCHET, QUAVER, QUAVER,
      QUAVER, QUAVER, QUAVER, SEMIQUAVER, SEMIQUAVER, QUAVER, QUAVER,
      QUAVER, SEMIQUAVER, SEMIQUAVER, QUAVER, QUAVER, QUAVER, QUAVER,
      CROTCHET, QUAVER, QUAVER, QUAVER, QUAVER, QUAVER, QUAVER, QUAVER,
      QUAVER, QUAVER, QUAVER, QUAVER, QUAVER, QUAVER, QUAVER, QUAVER>>

Lengths(a) == IF a = 1 THEN Lengths1 ELSE Lengths2
Delays(a) == IF a = 1 THEN Delays1 ELSE Delays2

\* the loops of a macro: the tone (or silence) loop and the gap loop
Phases == {"tone", "gap"}
LoopPc(a, ph) == IF ph = "tone" THEN TonePc(a) ELSE GapPc(a)

\* the bound that the loop ph of macro n of alarm a tests ms_count3 against
Limit(a, ph, n) == IF ph = "tone" THEN Lengths(a)[n] ELSE Delays(a)[n]

\* the statement that follows the loop and its ms_count3 = 0
AfterLoop(a, ph, n) ==
    IF ph = "tone" /\ Melody(a)[n] = "N" THEN GapPc(a) ELSE CheckPc(a)

\* the statement of main that follows the call of SoundAlarm<a>
PollPc(a) == IF a = 1 THEN "poll2" ELSE "poll_end"

\* SoundAlarm<a>: while (!PB2pressed() && !PB1pressed()) makes its reads
ToneWhile(a) ==
    /\ At(WhilePc(a))
    /\ StartQuery(WhilePc(a))
    /\ UNCHANGED <<clockVars, alarmVars, dispVars, dp_mask, tmr1Vars,
                   leapVars, intVars, playVars, btnVars, budgetVars, folded, muxVars,
                   ctrVars>>

\* SoundAlarm<a>: a press ends the playing loop and the alarm is disabled;
\* otherwise ms_count3 = 0 and the first macro
ToneWhileRead(a) ==
    /\ At("q_done")
    /\ back = WhilePc(a)
    /\ IF AnyPressed(reads)
       THEN /\ detected' = 1
            /\ note' = 0
            /\ AlarmOff(a)
            /\ pc' = PollPc(a)
            /\ UNCHANGED ms_count3
       ELSE /\ ms_count3' = 0
            /\ note' = 1
            /\ pc' = TonePc(a)
            /\ UNCHANGED <<detected, Alarm1On, Alarm2On>>
    /\ back' = "none"
    /\ reads' = <<>>
    /\ UNCHANGED <<clockVars, Alarm1Time, Alarm1Date, Alarm2Time, Alarm2Date,
                   dispVars, dp_mask, tmr1Vars, leapVars, intVars, btnVars, budgetVars,
                   folded, muxVars, ms_count0, ms_count1, ms_count2>>

\* GEN_NOTE, GEN_PAUSE: the condition of a loop: ms_count3 within the bound
\* makes the reads, ms_count3 above it ends the loop and ms_count3 = 0
ToneLoop(a, ph) ==
    /\ At(LoopPc(a, ph))
    /\ IF ms_count3 <= Limit(a, ph, note)
       THEN /\ StartQuery(LoopPc(a, ph))
            /\ UNCHANGED ms_count3
       ELSE /\ ms_count3' = 0
            /\ pc' = AfterLoop(a, ph, note)
            /\ UNCHANGED qVars
    /\ UNCHANGED <<clockVars, alarmVars, dispVars, dp_mask, tmr1Vars,
                   leapVars, intVars, playVars, btnVars, budgetVars, folded, muxVars,
                   ms_count0, ms_count1, ms_count2>>

\* GEN_NOTE, GEN_PAUSE: no press runs the body of the loop and tests the
\* condition again, a press ends the loop and ms_count3 = 0
ToneLoopRead(a, ph) ==
    /\ At("q_done")
    /\ back = LoopPc(a, ph)
    /\ IF AnyPressed(reads)
       THEN /\ detected' = 1
            /\ ms_count3' = 0
            /\ pc' = AfterLoop(a, ph, note)
       ELSE /\ pc' = LoopPc(a, ph)
            /\ UNCHANGED <<detected, ms_count3>>
    /\ back' = "none"
    /\ reads' = <<>>
    /\ UNCHANGED <<clockVars, alarmVars, dispVars, dp_mask, tmr1Vars,
                   leapVars, intVars, note, btnVars, budgetVars, folded, muxVars,
                   ms_count0, ms_count1, ms_count2>>

\* GEN_NOTE, GEN_PAUSE: if (PB1pressed() || PB2pressed()) makes its reads
ToneCheck(a) ==
    /\ At(CheckPc(a))
    /\ StartQuery(CheckPc(a))
    /\ UNCHANGED <<clockVars, alarmVars, dispVars, dp_mask, tmr1Vars,
                   leapVars, intVars, playVars, btnVars, budgetVars, folded, muxVars,
                   ctrVars>>

\* GEN_NOTE, GEN_PAUSE: a press breaks out of the playing loop and the alarm
\* is disabled; otherwise the next macro, or the next pass of the loop
ToneCheckRead(a) ==
    /\ At("q_done")
    /\ back = CheckPc(a)
    /\ IF AnyPressed(reads)
       THEN /\ detected' = 1
            /\ note' = 0
            /\ AlarmOff(a)
            /\ pc' = PollPc(a)
       ELSE /\ note' = IF note < Len(Melody(a)) THEN note + 1 ELSE 0
            /\ pc' = IF note < Len(Melody(a)) THEN TonePc(a) ELSE WhilePc(a)
            /\ UNCHANGED <<detected, Alarm1On, Alarm2On>>
    /\ back' = "none"
    /\ reads' = <<>>
    /\ UNCHANGED <<clockVars, Alarm1Time, Alarm1Date, Alarm2Time, Alarm2Date,
                   dispVars, dp_mask, tmr1Vars, leapVars, intVars, btnVars, budgetVars,
                   folded, muxVars, ctrVars>>

\* SetMenu: a pass of the edit loop of field f makes the reads of the editor
EditReads(f) ==
    /\ At(EditPc(f))
    /\ {s \in SwitchValues : s = FieldCode(f)} # {}
    /\ StartQuery(EditPc(f))
    /\ UNCHANGED <<clockVars, alarmVars, dispVars, dp_mask, tmr1Vars,
                   leapVars, intVars, playVars, btnVars, budgetVars, folded, muxVars,
                   ctrVars>>

\* SetMenu: the editor of field f with the results of its four reads, then
\* the field shown
EditApply(f) ==
    /\ At("q_done")
    /\ back = EditPc(f)
    /\ LET T == IF f \in TimeFields THEN EditTime(f, MainTime, reads)
                ELSE MainTime
           D == IF f \in DateFields
                THEN EditDate(f, MainDate, MainDate.month, reads)
                ELSE MainDate
       IN  /\ MainTime' = T
           /\ MainDate' = D
           /\ SetDisp(Num2Disp(FieldValue(f, T, D), Disp))
    /\ pc' = EditPc(f)
    /\ back' = "none"
    /\ reads' = <<>>
    /\ UNCHANGED <<mins_rollover, day_rollover, alarmVars, disp_index,
                   dp_mask, tmr1Vars, leapVars, intVars, playVars, btnVars, budgetVars,
                   folded, muxVars, ctrVars>>

\* <<LH0, LH1, LA4, LATF>> as the firing that left multiplex_index = i wrote
\* them, the display being d since
DrivenBefore(i, d, mask) ==
    CASE i = 2 -> <<1, 1, 1, d.LEDS>>
      [] i = 3 -> <<0, 1, 0, BitAnd(d.U1, mask)>>
      [] OTHER -> <<1, 0, 0, d.U2>>

\* values of a counter tested against limit: just reset, one firing below
\* the limit, one firing before it wraps
Near(limit) == {0, limit - 1, 65535}

\* the main loop is running: no alarm sounds, the clock runs, the display
\* shows the day
LoopContext ==
    /\ Alarm1On \in {0, 1}
    /\ Alarm2On \in {0, 1}
    /\ note = 0
    /\ TMR1IE = 1
    /\ dp_mask = 255
    /\ LET d == CurrentDisplay(0, MainTime, MainDate,
                               [U1 |-> 255, U2 |-> 255, LEDS |-> 0])
       IN  /\ disp_U1 = d.U1
           /\ disp_U2 = d.U2
           /\ disp_LEDS = d.LEDS

\* macros of a melody taken as starting points: the first, the last and
\* the first GEN_PAUSE
StartNotes(a) ==
    {1, Len(Melody(a))} \cup
    {n \in 1..Len(Melody(a)) :
        Melody(a)[n] = "P" /\ \A k \in 1..(n - 1) : Melody(a)[k] = "N"}

\* alarm a is sounding
PlayContext(a) ==
    /\ Alarm1On = IF a = 1 THEN 1 ELSE 0
    /\ Alarm2On = IF a = 2 THEN 1 ELSE 0
    /\ note \in StartNotes(a)
    /\ TMR1IE = 1
    /\ dp_mask = 255
    /\ disp_U1 = DispNums[a + 1]
    /\ disp_U2 = DispChars.A
    /\ disp_LEDS = 255

\* the edit loop of field f of the clock-of-record has been entered
EditContext(f) ==
    /\ Alarm1On = 0
    /\ Alarm2On = 0
    /\ note = 0
    /\ TMR1IE = 0
    /\ dp_mask = FlashDpMask(255)
    /\ LET d0 == CurrentDisplay(0, MainTime, MainDate,
                                [U1 |-> 255, U2 |-> 255, LEDS |-> 0])
           d  == Num2Disp(FieldValue(f, MainTime, MainDate), FieldFlash(f, d0))
       IN  /\ disp_U1 = d.U1
           /\ disp_U2 = d.U2
           /\ disp_LEDS = d.LEDS

\* the top of the main loop, the counters of the main loop anywhere in
\* their run
InitLoopTop ==
    /\ LoopContext
    /\ pc = "drain_time"
    /\ back = "none"
    /\ reads = <<>>
    /\ ms_count0 \in Near(DISPLAY_CYCLE_DELAY)
    /\ ms_count1 = 65535
    /\ ms_count2 \in Near(ALARM_POLL_RATE)
    /\ ms_count3 = 65535

\* a loop of a macro of alarm a is about to test ms_count3, which is one
\* firing below the bound or at it
InitPlaying ==
    /\ \E a \in Alarms, ph \in Phases :
         /\ PlayContext(a)
         /\ ph = "gap" => Melody(a)[note] = "N"
         /\ pc = LoopPc(a, ph)
         /\ ms_count3 \in {Limit(a, ph, note) - 1, Limit(a, ph, note)}
    /\ back = "none"
    /\ reads = <<>>
    /\ ms_count0 = 65535
    /\ ms_count1 = DEBOUNCE_DELAY
    /\ ms_count2 = ALARM_POLL_RATE

\* sites taken as starting points of a debounce wait
WaitSites == {"pb1", "pb2", "while1", "tone1", "gap2", "check2", "edit_secs"}

\* reads that leave a further read to make at a site
Prefixes(site) ==
    CASE SiteMode(site) = "and" -> {<<>>, <<TRUE>>}
      [] SiteMode(site) = "or" -> {<<>>, <<FALSE>>}
      [] OTHER -> {<<>>, <<TRUE>>, <<TRUE, TRUE>>, <<TRUE, TRUE, FALSE>>}

\* a read of a site is in its debounce wait, one firing from its end
InitWaiting ==
    /\ back \in WaitSites
    /\ reads \in Prefixes(back)
    /\ pc = WaitPc(SiteOrder(back)[Len(reads) + 1])
    /\ CASE back \in {"pb1", "pb2"} -> LoopContext
         [] back \in {"while1", "tone1"} -> PlayContext(1) /\ note = 1
         [] back \in {"gap2", "check2"} -> PlayContext(2) /\ note = 1
         [] OTHER -> EditContext("secs")
    /\ ms_count0 \in {1, 65535}
    /\ ms_count1 = DEBOUNCE_DELAY - 1
    /\ ms_count2 \in {1, 65535}
    /\ ms_count3 \in {1, 65535}

InitTimer0 ==
    /\ MainTime = Time(0, 0, 0)
    /\ MainDate = Date(1, 1, 2016)
    /\ Alarm1Time = Time(0, 0, 0)
    /\ Alarm1Date = [day |-> 0, month |-> 0, year_short |-> 0, year_long |-> 0]
    /\ Alarm2Time = Time(0, 0, 0)
    /\ Alarm2Date = Date(1, 1, 2016)
    /\ mins_rollover = 0
    /\ day_rollover = 0
    /\ disp_index = 0
    /\ TMR1IF = 0
    /\ year = 0
    /\ leap = 0
    /\ detected = 0
    /\ InitLoopTop \/ InitPlaying \/ InitWaiting
    /\ Started
    /\ RJ5 \in {0, 1}
    /\ RJ0 \in {0, 1}
    /\ RB0 \in {0, 1}
    /\ ret = 0
    /\ downs = 0
    /\ reports = 0
    /\ calls = 0
    /\ bounces = 0
    /\ folded = 0
    /\ multiplex_index = 1
    /\ driven = DrivenBefore(multiplex_index, Disp, dp_mask)
    /\ fires = MaxFires
    /\ ticks = 0
    /\ cycles = 0
    /\ edits = 0

NextTimer0 ==
    \/ lp_isr
    \/ \E b \in Buttons : DebounceSample(b)
    \/ \E b \in Buttons : DebounceWait(b)
    \/ \E b \in Buttons : DebounceResample(b)
    \/ MainCalcTime
    \/ MainCalcDate
    \/ DisplayCycle
    \/ DisplayPb1
    \/ DisplayPb2
    \/ MainSwitches
    \/ PollDue
    \/ Poll1
    \/ PollSecond
    \/ PollReset
    \/ SoundAlarm1
    \/ SoundAlarm2
    \/ \E a \in Alarms : ToneWhile(a)
    \/ \E a \in Alarms : ToneWhileRead(a)
    \/ \E a \in Alarms, ph \in Phases : ToneLoop(a, ph)
    \/ \E a \in Alarms, ph \in Phases : ToneLoopRead(a, ph)
    \/ \E a \in Alarms : ToneCheck(a)
    \/ \E a \in Alarms : ToneCheckRead(a)
    \/ SetMenuReturn
    \/ \E f \in EditedFields : SetMenuEnter(f)
    \/ \E f \in EditedFields : EditReads(f)
    \/ \E f \in EditedFields : EditApply(f)
    \/ \E f \in EditedFields : SetMenuExit(f)

SpecTimer0 == InitTimer0 /\ [][NextTimer0]_vars

----------------------------------------------------------------------------
(* A day of the idle device.  The switches read 0 and no button is down;   *)
(* between two seconds ticks the main loop makes at least one whole pass,  *)
(* so each tick is followed by a pass that drains the rollovers, shows the *)
(* field, and polls the alarms before the next tick.                       *)

\* seconds ticks of 24 hours
DayTicks == 86400

\* seconds between two time-outs of the display cycle
CycleSeconds == DISPLAY_CYCLE_DELAY \div 1000

\* Alarm 1 targets
DayTargets == {Time(0, 59, 0), Time(12, 30, 30), Time(0, 0, 0)}

\* one second: Timer1 overflows and the ISR is served; the next pass of the
\* main loop calls CalcTime and CalcDate as the rollovers ask, steps the
\* display index on its time-out, shows the field, reads the switches as 0
\* and polls Alarm 1; a match calls SoundAlarm1
IdleSecond ==
    /\ At("drain_time")
    /\ TMR1IE = 1
    /\ ticks > 0
    /\ ticks' = ticks - 1
    /\ LET i == Timer1_isr(MainTime, mins_rollover)
           c == IF i.roll >= 1 THEN CalcTime(i.time, i.roll, day_rollover)
                ELSE [time |-> i.time, day |-> day_rollover]
           D == IF c.day = 1 THEN CalcDate(MainDate) ELSE MainDate
           x == IF (DayTicks - ticks + 1) % CycleSeconds = 0
                THEN IndexUp(disp_index) ELSE disp_index
       IN  /\ MainTime' = c.time
           /\ MainDate' = D
           /\ mins_rollover' = IF i.roll >= 1 THEN 0 ELSE i.roll
           /\ day_rollover' = IF c.day = 1 THEN 0 ELSE c.day
           /\ disp_index' = x
           /\ SetDisp(CurrentDisplay(x, c.time, D, Disp))
           /\ pc' = IF Alarm1Due(c.time, D, Alarm1Time, Alarm1Date, Alarm1On)
                    THEN "sound1" ELSE "drain_time"
    /\ UNCHANGED <<alarmVars, dp_mask, tmr1Vars, leapVars, intVars, playVars, btnVars,
                   cycles, edits, folded, t0Vars>>

\* the device at boot with Alarm 1 set to a target and enabled
InitDay ==
    /\ MainTime = Time(0, 0, 0)
    /\ MainDate = Date(1, 1, 2016)
    /\ Alarm1Time \in DayTargets
    /\ Alarm1Date = [day |-> 0, month |-> 0, year_short |-> 0, year_long |-> 0]
    /\ Alarm2Time = Time(0, 0, 0)
    /\ Alarm2Date = Date(1, 1, 2016)
    /\ Alarm1On = 1
    /\ Alarm2On = 0
    /\ mins_rollover = 0
    /\ day_rollover = 0
    /\ dp_mask = 255
    /\ disp_index = 0
    /\ disp_U1 = 255
    /\ disp_U2 = 255
    /\ disp_LEDS = 0
    /\ TMR1IE = 1
    /\ TMR1IF = 0
    /\ pc = "drain_time"
    /\ year = 0
    /\ leap = 0
    /\ Idle
    /\ ticks = DayTicks
    /\ cycles = 0
    /\ edits = 0

NextIdleDay == IdleSecond

SpecDay == InitDay /\ [][NextIdleDay]_vars

----------------------------------------------------------------------------
(* The debounce wait with Timer0 firing.  A debounced read of a site is  *)
(* about to be made; the statements of SpecTimer0 follow.  Timer0        *)
(* overflows every millisecond while it has overflows left, and the main *)
(* context goes on past its busy-wait once the condition is false.       *)

\* Timer0 overflows of a behaviour: a debounce wait and one more
WaitFires == 26

\* a site is about to make a debounced read; ms_count1 is what an earlier
\* wait left in it
InitCalling ==
    /\ back \in WaitSites
    /\ reads \in Prefixes(back)
    /\ pc = SamplePc(SiteOrder(back)[Len(reads) + 1])
    /\ CASE back \in {"pb1", "pb2"} -> LoopContext
         [] back \in {"while1", "tone1"} -> PlayContext(1) /\ note = 1
         [] back \in {"gap2", "check2"} -> PlayContext(2) /\ note = 1
         [] OTHER -> EditContext("secs")
    /\ ms_count0 = 1
    /\ ms_count1 \in {DEBOUNCE_DELAY, 65535}
    /\ ms_count2 = ALARM_POLL_RATE
    /\ ms_count3 = 1

InitWait ==
    /\ MainTime = Time(0, 0, 0)
    /\ MainDate = Date(1, 1, 2016)
    /\ Alarm1Time = Time(0, 0, 0)
    /\ Alarm1Date = [day |-> 0, month |-> 0, year_short |-> 0, year_long |-> 0]
    /\ Alarm2Time = Time(0, 0, 0)
    /\ Alarm2Date = Date(1, 1, 2016)
    /\ mins_rollover = 0
    /\ day_rollover = 0
    /\ disp_index = 0
    /\ TMR1IF = 0
    /\ year = 0
    /\ leap = 0
    /\ detected = 0
    /\ InitCalling
    /\ Started
    /\ RJ5 \in {0, 1}
    /\ RJ0 \in {0, 1}
    /\ RB0 \in {0, 1}
    /\ FirstLine(SiteOrder(back)[Len(reads) + 1]) = 0   \* the line read first is asserted
    /\ ret = 0
    /\ downs = 0
    /\ reports = 0
    /\ calls = 0
    /\ bounces = 0
    /\ folded = 0
    /\ multiplex_index = 1
    /\ driven = DrivenBefore(multiplex_index, Disp, dp_mask)
    /\ fires = WaitFires
    /\ ticks = 0
    /\ cycles = 0
    /\ edits = 0

\* the main context leaves a busy-wait whose condition is false
WaitExit == \E b \in Buttons : DebounceWait(b)

SpecWait ==
    /\ InitWait
    /\ [][NextTimer0]_vars
    /\ WF_vars(lp_isr)
    /\ WF_vars(WaitExit)

----------------------------------------------------------------------------
(* The two year fields under day rollovers and year edits.  The operator *)
(* is in the year edit loop of the clock-of-record or of Alarm 2 on the  *)
(* last day of a year, with the minute rollover that ends the day raised *)
(* by the seconds ISR and not yet folded; the edit loop is left and the  *)
(* main loop folds the rollover into the date.                           *)

\* passes of a year edit loop that see a button pressed
YearEdits == 2

\* the years of the calendar
AllYears == 2000..2099

\* the year edit loop of the clock-of-record (rec = "main": Timer1 is
\* disabled) or of Alarm 2 has been entered
InitYearOf(rec) ==
    /\ pc = IF rec = "main" THEN EditPc("year") ELSE A2Pc("year")
    /\ IF rec = "main"
       THEN /\ MainDate \in {Date(31, 12, y) : y \in AllYears}
            /\ Alarm2Date = Date(1, 1, 2016)
       ELSE /\ MainDate \in {Date(31, 12, 2016), Date(31, 12, 2017)}
            /\ Alarm2Date \in {Date(1, 1, y) : y \in AllYears}
    /\ TMR1IE = IF rec = "main" THEN 0 ELSE 1
    /\ dp_mask = IF rec = "main" THEN FlashDpMask(255)
                 ELSE FlashDpMask(FlashDpMask(255))
    /\ LET d0 == CurrentDisplay(0, MainTime, MainDate,
                                [U1 |-> 255, U2 |-> 255, LEDS |-> 0])
           d  == IF rec = "main"
                 THEN Num2Disp(MainDate.year_short, YearFlash(d0))
                 ELSE YearFlash(Alarm2Flash(d0))
       IN  /\ disp_U1 = d.U1
           /\ disp_U2 = d.U2
           /\ disp_LEDS = d.LEDS

InitYear ==
    /\ MainTime = Time(23, 58, 0)
    /\ mins_rollover = 1
    /\ day_rollover = 0
    /\ Alarm1Time = Time(0, 0, 0)
    /\ Alarm1Date = [day |-> 0, month |-> 0, year_short |-> 0, year_long |-> 0]
    /\ Alarm2Time = Time(0, 0, 0)
    /\ Alarm1On = 0
    /\ Alarm2On = 0
    /\ \E rec \in {"main", "alarm2"} : InitYearOf(rec)
    /\ disp_index = 0
    /\ TMR1IF = 0
    /\ year = 0
    /\ leap = 0
    /\ Idle
    /\ ticks = 0
    /\ cycles = 0
    /\ edits = YearEdits

NextYear ==
    \/ SetMenuEdit("year")
    \/ SetMenuExit("year")
    \/ SetAlarm2Edit("year")
    \/ SetAlarm2Exit("year")
    \/ Alarm2Leave
    \/ SetMenuReturn
    \/ MainPoll
    \/ Poll1
    \/ Poll2
    \/ MainCalcTime
    \/ CalcTimeClear
    \/ MainCalcDate

SpecYear == InitYear /\ [][NextYear]_vars

----------------------------------------------------------------------------
(* The display index in the main loop.  The main loop is at its display  *)
(* block with any of the six fields shown, or in the debounce wait of    *)
(* the second read of a button block; Timer0 fires, the input lines keep *)
(* their level, no alarm is enabled and the operator leaves the switches *)
(* or returns them to 0.                                                 *)

\* Timer0 overflows of a behaviour
IndexFires == 2

\* the main loop shows the field of disp_index
IndexContext ==
    /\ disp_index \in 0..5
    /\ Alarm1On = 0
    /\ Alarm2On = 0
    /\ note = 0
    /\ TMR1IE = 1
    /\ dp_mask = 255
    /\ LET d == CurrentDisplay(disp_index, MainTime, MainDate,
                               [U1 |-> 255, U2 |-> 255, LEDS |-> 0])
       IN  /\ disp_U1 = d.U1
           /\ disp_U2 = d.U2
           /\ disp_LEDS = d.LEDS

\* main is about to test the display-cycle time-out
InitAtDisplay ==
    /\ pc = "display"
    /\ back = "none"
    /\ reads = <<>>
    /\ ms_count0 \in Near(DISPLAY_CYCLE_DELAY)
    /\ ms_count1 = 65535

\* the second read of a button block is in its debounce wait, one firing
\* from its end
InitSecondRead ==
    /\ back \in {"pb1", "pb2"}
    /\ reads = <<TRUE>>
    /\ pc = WaitPc(SiteOrder(back)[2])
    /\ ms_count0 \in {1, DISPLAY_CYCLE_DELAY}
    /\ ms_count1 = DEBOUNCE_DELAY - 1

InitIndex ==
    /\ MainTime = Time(0, 0, 0)
    /\ MainDate = Date(1, 1, 2016)
    /\ Alarm1Time = Time(0, 0, 0)
    /\ Alarm1Date = [day |-> 0, month |-> 0, year_short |-> 0, year_long |-> 0]
    /\ Alarm2Time = Time(0, 0, 0)
    /\ Alarm2Date = Date(1, 1, 2016)
    /\ mins_rollover = 0
    /\ day_rollover = 0
    /\ IndexContext
    /\ InitAtDisplay \/ InitSecondRead
    /\ ms_count2 = ALARM_POLL_RATE
    /\ ms_count3 = 65535
    /\ TMR1IF = 0
    /\ year = 0
    /\ leap = 0
    /\ detected = 0
    /\ Started
    /\ RJ5 \in {0, 1}
    /\ RJ0 \in {0, 1}
    /\ RB0 \in {0, 1}
    /\ ret = 0
    /\ downs = 0
    /\ reports = 0
    /\ calls = 0
    /\ bounces = 0
    /\ folded = 0
    /\ multiplex_index = 1
    /\ driven = DrivenBefore(multiplex_index, Disp, dp_mask)
    /\ fires = IndexFires
    /\ ticks = 0
    /\ cycles = 0
    /\ edits = 0

NextIndex ==
    \/ lp_isr
    \/ \E b \in Buttons : DebounceSample(b)
    \/ \E b \in Buttons : DebounceWait(b)
    \/ \E b \in Buttons : DebounceResample(b)
    \/ MainCalcTime
    \/ MainCalcDate
    \/ DisplayCycle
    \/ DisplayPb1
    \/ DisplayPb2
    \/ MainSwitches
    \/ SetMenuReturn
    \/ PollDue
    \/ Poll1
    \/ PollSecond
    \/ PollReset

SpecIndex == InitIndex /\ [][NextIndex]_vars

----------------------------------------------------------------------------
(* Leaving the minutes or hours edit loop of the clock-of-record.  The   *)
(* seconds ISR has rolled the seconds over after the main loop tested    *)
(* mins_rollover and before it read the switches, so the count is still  *)
(* pending when SetMenu disables Timer1; the operator edits the field,   *)
(* leaves the loop, and the main loop makes its next pass.               *)

\* seconds that elapse after the edit loop was entered
LeaveTicks == 1

\* passes of the edit loop that see a button pressed
LeaveEdits == 2

\* the fields of the clock-of-record that CalcTime writes
CarryFields == {"mins", "hrs"}

\* the edit loop of field f has been entered: Timer1 interrupt disabled,
\* the field flashed and shown
InitLeaveOf(f) ==
    /\ pc = EditPc(f)
    /\ TMR1IE = 0
    /\ dp_mask = FlashDpMask(255)
    /\ LET d0 == CurrentDisplay(0, MainTime, MainDate,
                                [U1 |-> 255, U2 |-> 255, LEDS |-> 0])
           d  == Num2Disp(FieldValue(f, MainTime, MainDate), FieldFlash(f, d0))
       IN  /\ disp_U1 = d.U1
           /\ disp_U2 = d.U2
           /\ disp_LEDS = d.LEDS

InitLeave ==
    /\ MainTime \in {Time(h, m, 0) : h \in {0, 12, 22, 23}, m \in {0, 30, 57, 58, 59}}
    /\ MainDate = Date(1, 1, 2016)
    /\ mins_rollover \in {0, 1}
    /\ day_rollover = 0
    /\ Alarm1Time = Time(0, 0, 0)
    /\ Alarm1Date = [day |-> 0, month |-> 0, year_short |-> 0, year_long |-> 0]
    /\ Alarm2Time = Time(0, 0, 0)
    /\ Alarm2Date = Date(1, 1, 2016)
    /\ Alarm1On = 0
    /\ Alarm2On = 0
    /\ \E f \in CarryFields : InitLeaveOf(f)
    /\ disp_index = 0
    /\ TMR1IF = 0
    /\ year = 0
    /\ leap = 0
    /\ Idle
    /\ ticks = LeaveTicks
    /\ cycles = 0
    /\ edits = LeaveEdits

NextLeave ==
    \/ Timer1Overflow
    \/ hp_secs_count_isr
    \/ \E f \in CarryFields : SetMenuEdit(f)
    \/ \E f \in CarryFields : SetMenuExit(f)
    \/ SetMenuReturn
    \/ MainPoll
    \/ Poll1
    \/ Poll2
    \/ MainCalcTime
    \/ CalcTimeClear
    \/ MainCalcDate

SpecLeave == InitLeave /\ [][NextLeave]_vars

----------------------------------------------------------------------------
(* Steps of the model named in the properties *)

\* the seconds interrupt is served
IsrStep == TMR1IF = 1 /\ TMR1IF' = 0

\* the main loop calls CalcTime, which folds the pending count
CalcTimeStep == pc = "drain_time" /\ pc' = "calc_clear"

\* CalcTime clears the count and returns
CalcTimeReturn == pc = "calc_clear" /\ pc' = "drain_date"

\* the main loop calls CalcDate
CalcDateStep == pc = "drain_date" /\ pc' = "display" /\ day_rollover = 1

\* the main loop evaluates the Alarm 1 test
Poll1Step == pc = "poll1" /\ pc' # "poll1"

\* the main loop evaluates the Alarm 2 test
Poll2Step == pc = "poll2" /\ pc' # "poll2"

\* statements of SoundAlarm1 and of SoundAlarm2
Sound1Pcs == {"sound1", "while1", "tone1", "gap1", "check1"}
Sound2Pcs == {"sound2", "while2", "tone2", "gap2", "check2"}

\* SoundAlarm<n> returns to the main loop
Sound1Return == pc \in Sound1Pcs /\ pc' \notin Sound1Pcs
Sound2Return == pc \in Sound2Pcs /\ pc' \notin Sound2Pcs

\* the sequencer starts a tone or a silence of the melody
StartsNote ==
    /\ pc' \in {"tone1", "tone2"}
    /\ pc # pc' \/ note' # note

\* the edit loops of the clock-of-record and of the alarm fields
EditPcs == {EditPc(f) : f \in MainFields}
AlarmEditPcs == {A1Pc(f) : f \in TimeFields} \cup {A2Pc(f) : f \in MainFields}

\* statements of main outside SetMenu
MainPcs ==
    {"drain_time", "calc_clear", "drain_date", "display", "switches", "poll",
     "poll1", "poll2"}
        \cup Sound1Pcs \cup Sound2Pcs

\* a step taken in an edit state of the clock-of-record serves no seconds
\* interrupt, keeps mins_rollover, and keeps MainTime.secs outside the
\* seconds editor
FrozenInEdit ==
    pc \in EditPcs =>
        /\ ~IsrStep
        /\ mins_rollover' = mins_rollover
        /\ pc # "edit_secs" => MainTime'.secs = MainTime.secs

\* entering an edit state of the clock-of-record disables the Timer1
\* interrupt; entering an edit state of an alarm field leaves it enabled
EditEntry ==
    /\ (pc \notin EditPcs /\ pc' \in EditPcs) => TMR1IE' = 0
    /\ (pc \notin AlarmEditPcs /\ pc' \in AlarmEditPcs) =>
          (TMR1IE = 1 /\ TMR1IE' = 1)

\* PIE1bits.TMR1IE = 1 is executed with the interrupt disabled
Resume == TMR1IE = 0 /\ TMR1IE' = 1

\* PB<b>pressed returns
PBpressedReturn(b) ==
    pc \in {SamplePc(b), ResamplePc(b)} /\ pc' = DonePc(b)

\* the main loop calls CurrentDisplay with the index disp_index'
DisplayStep == pc = "display" /\ pc' = "switches"

\* the value of the field that index i selects
Shown(i) == FieldValue(IndexField[i + 1], MainTime, MainDate)

\* the digit patterns
Digits == {DispNums[k] : k \in 1..10}

\* the calendar day after the valid date dt, other than 31 December
NextDay(dt) ==
    IF dt.day < MonthLength(dt.month, dt.year_long)
    THEN [dt EXCEPT !.day = dt.day + 1]
    ELSE [dt EXCEPT !.day = 1, !.month = dt.month + 1]

\* the switch readings that SetMenu maps to a mode
ModeCodes == {SECS, MINS, HRS, YEAR, MONTH, DAY, ALARM2, ALARM1}

\* a step of the main context: no Timer1 overflow and no interrupt served
MainStep == TMR1IF' = TMR1IF /\ ticks' = ticks

\* the Er glyphs with error code n on the indicator LEDs
ErrorShown(n) ==
    /\ disp_U2' = DispChars.E
    /\ disp_U1' = DispChars.r
    /\ disp_LEDS' = n

\* a pass of the loop of SetMenu that enters no mode shows error code 2 and
\* changes nothing else
InvalidSelection ==
    (pc = "setmenu" /\ pc' = "setmenu" /\ MainStep) =>
        /\ ErrorShown(2)
        /\ UNCHANGED <<clockVars, alarmVars, TMR1IE, disp_index, dp_mask>>


\* statements of SetMenu, SetAlarm1 and SetAlarm2
MenuPcs ==
    {"setmenu", "alarm1", "alarm2", "a1_toggle", "a2_toggle"}
        \cup EditPcs \cup AlarmEditPcs

\* the alarm times and dates change in the alarm editors only; an enabled
\* flag changes in its toggle loop, or is cleared when its alarm returns
AlarmRecordFrame ==
    /\ <<Alarm1Time, Alarm1Date>>' # <<Alarm1Time, Alarm1Date>> =>
          pc \in {A1Pc(f) : f \in TimeFields}
    /\ <<Alarm2Time, Alarm2Date>>' # <<Alarm2Time, Alarm2Date>> =>
          pc \in {A2Pc(f) : f \in MainFields}
    /\ Alarm1On' # Alarm1On =>
          \/ pc = "a1_toggle"
          \/ Sound1Return /\ Alarm1On' = 0
    /\ Alarm2On' # Alarm2On =>
          \/ pc = "a2_toggle"
          \/ Sound2Return /\ Alarm2On' = 0

\* one pass of an edit loop of the editors with the buttons held
EditPass == pc' = pc /\ edits' = edits - 1

\* day of dt is a day of its own month in its own year
ValidDay(dt) == dt.day \in 1..MonthLength(dt.month, dt.year_long)

\* the reads of a pass: only the increment button (PB2) reports pressed,
\* only the decrement button (PB1) reports pressed, neither does
OnlyIncrement == Pb2Held /\ ~Pb1Held
OnlyDecrement == Pb1Held /\ ~Pb2Held
NoButton == ~Pb2Held /\ ~Pb1Held

\* what SetDay is to make of the date d: e is d after the call
DayEdited(d, e) ==
    /\ ValidDay(e)
    /\ (OnlyIncrement /\ d.day = MonthLength(d.month, d.year_long)) => e.day = 1
    /\ (OnlyDecrement /\ d.day = 1) => e.day = MonthLength(d.month, d.year_long)

\* a pass of a day edit loop that starts from a valid day
DayEditorKeepsValid ==
    /\ (pc = "edit_day" /\ EditPass /\ ValidDay(MainDate))
          => DayEdited(MainDate, MainDate')
    /\ (pc = "a2_day" /\ EditPass /\ ValidDay(Alarm2Date))
          => DayEdited(Alarm2Date, Alarm2Date')

\* range of the field edited by SetSecs, SetMins, SetHrs, SetMonth, SetYear
FieldMin(f) == CASE f = "month" -> 1 [] f = "year" -> 2000 [] OTHER -> 0
FieldMax(f) ==
    CASE f = "secs" -> 59 [] f = "mins" -> 59 [] f = "hrs" -> 23
      [] f = "month" -> 12 [] f = "year" -> 2099

\* the fields of C28 and the value an editor of one works on
SteppedFields == {"secs", "mins", "hrs", "month", "year"}
Edited(f, T, D) == IF f = "year" THEN D.year_long ELSE FieldValue(f, T, D)

\* one step up and one step down with wraparound
StepUp(f, v) == IF v = FieldMax(f) THEN FieldMin(f) ELSE v + 1
StepDown(f, v) == IF v = FieldMin(f) THEN FieldMax(f) ELSE v - 1

\* w is what one invocation is to make of the value v of field f
OneStep(f, v, w) ==
    /\ OnlyIncrement => w = StepUp(f, v)
    /\ OnlyDecrement => w = StepDown(f, v)
    /\ NoButton => w = v

\* a pass of the edit loop of a stepped field of either record
EditorStepsOnce ==
    \A f \in SteppedFields :
        /\ (pc = EditPc(f) /\ EditPass)
              => OneStep(f, Edited(f, MainTime, MainDate),
                            Edited(f, MainTime', MainDate'))
        /\ (pc = A2Pc(f) /\ EditPass)
              => OneStep(f, Edited(f, Alarm2Time, Alarm2Date),
                            Edited(f, Alarm2Time', Alarm2Date'))

\* Timer0 fires
Timer0Fires == fires' = fires - 1

\* the firing drives the bank that multiplex_index selects, and no other
DrivesSlot ==
    CASE multiplex_index = 1 -> driven' = <<1, 1, 1, disp_LEDS>>
      [] multiplex_index = 2 -> driven' = <<0, 1, 0, BitAnd(disp_U1, dp_mask)>>
      [] multiplex_index = 3 -> driven' = <<1, 0, 0, disp_U2>>
      [] OTHER -> FALSE

\* what one firing of Timer0 does
Firing ==
    Timer0Fires =>
        /\ DrivesSlot
        /\ multiplex_index' = (multiplex_index % 3) + 1
        /\ ms_count0' = (ms_count0 + 1) % 65536
        /\ ms_count1' = (ms_count1 + 1) % 65536
        /\ ms_count2' = (ms_count2 + 1) % 65536
        /\ ms_count3' = (ms_count3 + 1) % 65536

\* sites of the display-cycle logic of main, of the tone sequencer and of
\* the settings menu
CycleSites == {"pb1", "pb2"}
ToneSites ==
    {"while1", "while2", "tone1", "tone2", "gap1", "gap2", "check1", "check2"}

\* the main context is in a debounce routine
InDebounce == pc \in Pb1Pcs \cup Pb2Pcs

\* the main context is at a statement of the display-cycle logic of main
InDisplayCycle == pc = "display" \/ (pc = "q_done" /\ back \in CycleSites)

\* the main context is at a statement of SoundAlarm1 or SoundAlarm2 or of a
\* macro, the debounce routines apart
InToneSequencer ==
    pc \in Sound1Pcs \cup Sound2Pcs \/ (pc = "q_done" /\ back \in ToneSites)

\* the main context is in alarm playback, the debounce calls included
InPlayback == InToneSequencer \/ (InDebounce /\ back \in ToneSites)

\* the main context is in the settings menu, the debounce calls included
InSetMenu ==
    \/ pc \in {"setmenu"} \cup EditPcs
    \/ (InDebounce \/ pc = "q_done") /\ back \in EditPcs

\* every change of a counter that is not an increment by Timer0 is a reset
\* by the owner of the counter
CounterOwners ==
    /\ (ms_count0' # ms_count0 /\ ~Timer0Fires)
          => (ms_count0' = 0 /\ InDisplayCycle)
    /\ (ms_count1' # ms_count1 /\ ~Timer0Fires)
          => (ms_count1' = 0 /\ pc \in {SamplePc(1), SamplePc(2)})
    /\ (ms_count2' # ms_count2 /\ ~Timer0Fires)
          => (ms_count2' = 0 /\ pc = "poll_end")
    /\ (ms_count3' # ms_count3 /\ ~Timer0Fires)
          => (ms_count3' = 0 /\ InToneSequencer)
    /\ (InDebounce /\ back \in ToneSites /\ ~Timer0Fires)
          => ms_count3' = ms_count3
    /\ ((InPlayback \/ InSetMenu) /\ ~Timer0Fires)
          => (ms_count0' = ms_count0 /\ ms_count2' = ms_count2)

\* a call of PB1pressed or PB2pressed is in its busy-wait on ms_count1
Waiting == pc \in {WaitPc(b) : b \in Buttons}

\* the call has left its busy-wait and takes its second sample
Resampling == pc \in {ResamplePc(b) : b \in Buttons}

\* Timer0 has enough overflows left to take ms_count1 to DEBOUNCE_DELAY
KeepsFiring == ms_count1 + fires >= DEBOUNCE_DELAY

\* both interrupt priority levels and the Timer0 interrupt are enabled
InterruptsOn == GIE = 1 /\ PEIE = 1 /\ TMR0IE = 1

\* a step writes none of GIE, PEIE and TMR0IE
EnablesKept == UNCHANGED intVars

\* the two year fields of a date agree and the year is one of the calendar
YearsAgree(dt) ==
    /\ dt.year_short = dt.year_long - 2000
    /\ dt.year_long \in 2000..2099

\* main passes the test of the display-cycle time-out, which has expired
CycleTimeout ==
    pc = "display" /\ pc' # "display" /\ ms_count0 >= DISPLAY_CYCLE_DELAY

\* main ends a button block (site) whose two reads both returned 1
Confirmed(site) ==
    pc = "q_done" /\ pc' # "q_done" /\ back = site /\ reads = <<TRUE, TRUE>>

\* main calls CurrentDisplay
ShowsIndex == pc = "q_done" /\ back = "pb2" /\ pc' = "switches"

\* how a step of the main loop moves disp_index and the display-cycle
\* counter, and what CurrentDisplay is passed
IndexSteps ==
    /\ CycleTimeout =>
         disp_index' = (disp_index + 1) % 6 /\ ms_count0' = 0
    /\ Confirmed("pb1") =>
         disp_index' = (disp_index + 1) % 6 /\ ms_count0' = 0
    /\ Confirmed("pb2") =>
         disp_index' = (disp_index + 5) % 6 /\ ms_count0' = 0
    /\ ~(CycleTimeout \/ Confirmed("pb1") \/ Confirmed("pb2")) =>
         disp_index' = disp_index
    /\ ShowsIndex =>
         /\ disp_index' \in 0..5
         /\ disp_LEDS' = <<DAY, MONTH, YEAR, HRS, MINS, SECS>>[disp_index' + 1]
         /\ ~ErrorShown(3)

\* Alarm 1 has sounded in the alarm poll under way, so the clock-of-record
\* equalled Alarm1Time when the poll began, and Alarm 2, enabled, has the
\* same target time and the date of the clock-of-record: both alarms
\* matched when the poll began
BothMatched ==
    /\ detected = 1
    /\ Alarm2On = 1
    /\ Alarm2Time = Alarm1Time
    /\ MainDate.day = Alarm2Date.day
    /\ MainDate.month = Alarm2Date.month
    /\ MainDate.year_short = Alarm2Date.year_short

\* the second comparison of a poll in which both alarms matched invokes
\* SoundAlarm2
SoundsSecond == (Poll2Step /\ BothMatched) => pc' = "sound2"

\* no second has elapsed since the edit loop was entered
NoNewTick == ticks = LeaveTicks /\ TMR1IF = 0

\* the edit loop of field f was the last to write the display buffer: the
\* indicator lit by its flash routine is still shown
LeftField(f) == BitAnd(disp_LEDS, 63) = FieldCode(f)

\* the test of mins_rollover at the top of a main-loop pass, with CalcTime
\* when the count is pending, leaves the field of the edit loop as it is
KeepsEdited ==
    (pc = "drain_time" /\ pc' # "drain_time" /\ NoNewTick)
        => /\ LeftField("mins") => MainTime'.mins = MainTime.mins
           /\ LeftField("hrs") => MainTime'.hrs = MainTime.hrs

----------------------------------------------------------------------------
(* Properties *)

\* C1: one firing of the seconds source with secs in 0..58 sets secs to
\* secs + 1 and leaves mins_rollover unchanged; with secs = 59 it sets secs
\* to 0 and adds exactly 1 to mins_rollover; mins, hrs and MainDate are
\* unchanged in both cases.
C1_SecondsTick ==
    [][IsrStep =>
         /\ MainTime.secs \in 0..58 =>
              /\ MainTime'.secs = MainTime.secs + 1
              /\ mins_rollover' = mins_rollover
         /\ MainTime.secs = 59 =>
              /\ MainTime'.secs = 0
              /\ mins_rollover' = mins_rollover + 1
         /\ MainTime'.mins = MainTime.mins
         /\ MainTime'.hrs = MainTime.hrs
         /\ MainDate' = MainDate]_vars

\* a seconds interrupt has been served at secs = 59 and raised the rollover
C1_Witness ==
    /\ ticks = CalcTicks - 1
    /\ TMR1IF = 0
    /\ pc = "drain_time"
    /\ MainTime = Time(23, 58, 0)
    /\ mins_rollover = 2

\* C2: CalcTime with minutes in 0..58, rollover in 1..5 and
\* minutes + rollover < 60 (59 included) sets minutes to minutes + rollover,
\* leaves hours and the day-rollover signal unchanged and clears the count.
C2_NoCarry ==
    [][/\ (/\ CalcTimeStep
           /\ MainTime.mins \in 0..58
           /\ mins_rollover \in 1..5
           /\ MainTime.mins + mins_rollover < 60) =>
            /\ MainTime'.mins = MainTime.mins + mins_rollover
            /\ MainTime'.hrs = MainTime.hrs
            /\ day_rollover' = day_rollover
       /\ CalcTimeReturn => mins_rollover' = 0]_vars

\* C3: CalcTime with minutes in 0..58, rollover in 1..5 and
\* minutes + rollover >= 60 sets minutes to minutes + rollover - 60; with
\* hours < 23 it adds 1 to hours and leaves the day-rollover signal, with
\* hours = 23 it sets hours to 0 and raises the day-rollover signal; the
\* rollover count is 0 afterwards.
C3_Carry ==
    [][/\ (/\ CalcTimeStep
           /\ MainTime.mins \in 0..58
           /\ mins_rollover \in 1..5
           /\ MainTime.mins + mins_rollover >= 60) =>
            /\ MainTime'.mins = MainTime.mins + mins_rollover - 60
            /\ MainTime.hrs < 23 =>
                 /\ MainTime'.hrs = MainTime.hrs + 1
                 /\ day_rollover' = day_rollover
            /\ MainTime.hrs = 23 =>
                 /\ MainTime'.hrs = 0
                 /\ day_rollover' = 1
       /\ CalcTimeReturn => mins_rollover' = 0]_vars

\* CalcTime has carried 58 + 5 minutes out of hour 23
C3_Witness ==
    /\ pc = "drain_date"
    /\ ticks = CalcTicks
    /\ MainTime = Time(0, 3, 59)
    /\ day_rollover = 1
    /\ mins_rollover = 0

\* C4: between main-loop operations the clock-of-record holds a valid time
\* of day: hrs in 0..23, mins in 0..59, secs in 0..59.
C4_ValidTime ==
    /\ MainTime.hrs \in 0..23
    /\ MainTime.mins \in 0..59
    /\ MainTime.secs \in 0..59

\* C5: one CalcTime pass drains any pending count r >= 1: minutes become
\* (minutes + r) mod 60, hours advance by floor((minutes + r) / 60) modulo
\* 24, the day-rollover signal is raised when the hours wrap, and the count
\* is cleared.
C5_FullDrain ==
    [][/\ CalcTimeStep =>
            LET sum == MainTime.mins + mins_rollover
                h   == MainTime.hrs + (sum \div 60)
            IN  /\ MainTime'.mins = sum % 60
                /\ MainTime'.hrs = h % 24
                /\ h >= 24 => day_rollover' = 1
       /\ CalcTimeReturn => mins_rollover' = 0]_vars

\* C6: from 23:59:59 on 31/12/2016 with no rollover pending, one seconds
\* tick followed by CalcTime and CalcDate in the same pass yields 00:00:00
\* on 01/01/2017 (year_long 2017, year_short 17) with both rollover signals
\* cleared.  The steps are deterministic, so the property follows the state
\* through them: the interrupt, the two steps of CalcTime, CalcDate.
C6_EndToEnd ==
    [][/\ (/\ IsrStep
           /\ MainTime = Time(23, 59, 59)
           /\ MainDate = Date(31, 12, 2016)
           /\ mins_rollover = 0
           /\ day_rollover = 0) =>
            /\ MainTime' = Time(23, 59, 0)
            /\ MainDate' = Date(31, 12, 2016)
            /\ mins_rollover' = 1
            /\ day_rollover' = 0
       /\ (/\ CalcTimeStep
           /\ MainTime = Time(23, 59, 0)
           /\ MainDate = Date(31, 12, 2016)
           /\ mins_rollover = 1
           /\ day_rollover = 0) =>
            /\ MainTime' = Time(0, 0, 0)
            /\ MainDate' = Date(31, 12, 2016)
            /\ mins_rollover' = 1
            /\ day_rollover' = 1
       /\ (/\ CalcTimeReturn
           /\ MainTime = Time(0, 0, 0)
           /\ MainDate = Date(31, 12, 2016)
           /\ mins_rollover = 1
           /\ day_rollover = 1) =>
            /\ MainTime' = Time(0, 0, 0)
            /\ MainDate' = Date(31, 12, 2016)
            /\ mins_rollover' = 0
            /\ day_rollover' = 1
       /\ (/\ CalcDateStep
           /\ MainTime = Time(0, 0, 0)
           /\ MainDate = Date(31, 12, 2016)
           /\ mins_rollover = 0) =>
            /\ MainTime' = Time(0, 0, 0)
            /\ MainDate' = [day |-> 1, month |-> 1, year_short |-> 17,
                            year_long |-> 2017]
            /\ mins_rollover' = 0
            /\ day_rollover' = 0]_vars

\* the main loop has drained the tick that ended 2016
C6_Witness ==
    /\ pc = "display"
    /\ ticks = CalcTicks - 1
    /\ TMR1IF = 0
    /\ MainTime = Time(0, 0, 0)
    /\ MainDate = Date(1, 1, 2017)
    /\ mins_rollover = 0
    /\ day_rollover = 0

\* C7: CalcDate on 31 December of year Y gives 1 January of Y + 1 (both
\* year fields incremented) for every Y in 2000..2098, leap or not, and
\* resets the year to 2000 / 00 only for Y = 2099.
C7_YearWrap ==
    [][(/\ CalcDateStep
        /\ MainDate.day = 31
        /\ MainDate.month = 12
        /\ MainDate.year_long \in 2000..2099) =>
         /\ MainDate'.day = 1
         /\ MainDate'.month = 1
         /\ MainDate.year_long <= 2098 =>
              /\ MainDate'.year_long = MainDate.year_long + 1
              /\ MainDate'.year_short = MainDate.year_short + 1
         /\ MainDate.year_long = 2099 =>
              /\ MainDate'.year_long = 2000
              /\ MainDate'.year_short = 0]_vars

\* C8: for every valid date of 2000..2099 other than 31 December CalcDate
\* gives the next calendar day by the leap-year-aware length of the month,
\* the year unchanged; it clears the day-rollover signal on every call.
C8_NextDay ==
    [][CalcDateStep =>
         /\ day_rollover' = 0
         /\ (/\ MainDate \in ValidDates
             /\ ~(MainDate.day = 31 /\ MainDate.month = 12)) =>
              MainDate' = NextDay(MainDate)]_vars

\* CalcDate has moved 28 February of a non-leap year to 1 March
C8_Witness ==
    /\ pc = "display"
    /\ ticks = CalcTicks - 1
    /\ MainTime = Time(0, 0, 0)
    /\ MainDate = Date(1, 3, 2017)
    /\ day_rollover = 0

\* C9: CalcLeapYear returns 1 exactly when the year is divisible by 4 and
\* (not divisible by 100 or divisible by 400), and 0 otherwise, for every
\* year of 1900..2100; 2000 -> 1, 1900 -> 0, 2016 -> 1, 2017 -> 0.
C9_LeapYear ==
    pc = "leap_done" =>
        /\ leap \in {0, 1}
        /\ leap = 1 <=> (year % 4 = 0 /\ (year % 100 # 0 \/ year % 400 = 0))
        /\ year = 2000 => leap = 1
        /\ year = 1900 => leap = 0
        /\ year = 2016 => leap = 1
        /\ year = 2017 => leap = 0

\* CalcLeapYear has returned 1 for the year 2000
C9_Witness == pc = "leap_done" /\ year = 2000 /\ leap = 1

\* C10: at an alarm poll SoundAlarm1 is invoked if and only if hrs, mins and
\* secs of MainTime equal those of Alarm1Time and Alarm1On is set, whatever
\* MainDate and Alarm1Date are.
C10_Alarm1Fires ==
    [][Poll1Step =>
         (pc' = "sound1" <=>
            /\ MainTime.hrs = Alarm1Time.hrs
            /\ MainTime.mins = Alarm1Time.mins
            /\ MainTime.secs = Alarm1Time.secs
            /\ Alarm1On = 1)]_vars

\* Alarm 1 is about to sound on a date that matches no alarm date
C10_Witness ==
    /\ pc = "sound1"
    /\ Alarm1On = 1
    /\ MainTime = Time(23, 59, 59)
    /\ Alarm1Time = Time(23, 59, 59)
    /\ MainDate = Date(1, 1, 2017)
    /\ Alarm2Date = Date(1, 1, 2016)
    /\ ticks = CalcTicks

\* C11: at an alarm poll SoundAlarm2 is invoked only if Alarm2On is set and
\* hrs, mins, secs, day, month and year_short of the clock-of-record all
\* equal those of Alarm 2.
C11_Alarm2Fires ==
    [][(Poll2Step /\ pc' = "sound2") =>
         /\ Alarm2On = 1
         /\ MainTime.hrs = Alarm2Time.hrs
         /\ MainTime.mins = Alarm2Time.mins
         /\ MainTime.secs = Alarm2Time.secs
         /\ MainDate.day = Alarm2Date.day
         /\ MainDate.month = Alarm2Date.month
         /\ MainDate.year_short = Alarm2Date.year_short]_vars

\* Alarm 2 is about to sound at the end of a year, after a poll in which
\* Alarm 1 did not match
C11_Witness ==
    /\ pc = "sound2"
    /\ Alarm2On = 1
    /\ MainTime = Time(23, 59, 59)
    /\ Alarm2Time = Time(23, 59, 59)
    /\ MainDate = Date(1, 1, 2017)
    /\ Alarm2Date = Date(1, 1, 2017)
    /\ Alarm1Time = Time(0, 0, 0)

\* C12: SoundAlarm1 and SoundAlarm2 return to the main loop only in a step
\* in which a button read has returned 1, and on return the flag of the
\* alarm that sounded is 0 and the flag of the other alarm is unchanged.
C12_Acknowledge ==
    [][/\ Sound1Return =>
            /\ detected' = 1
            /\ pc' = "poll2"
            /\ Alarm1On' = 0
            /\ Alarm2On' = Alarm2On
       /\ Sound2Return =>
            /\ detected' = 1
            /\ pc' = "drain_time"
            /\ Alarm2On' = 0
            /\ Alarm1On' = Alarm1On]_vars

\* Alarm 1 has been acknowledged and disabled while Alarm 2 stays enabled
C12_Witness ==
    /\ pc = "poll2"
    /\ detected = 1
    /\ Alarm1On = 0
    /\ Alarm2On = 1
    /\ MainTime = Alarm1Time

\* C13: once a button read has returned 1 during playback, no further tone
\* or silence of the melody is started.
C13_AbortsMelody ==
    [][StartsNote => detected = 0]_vars

\* C14: in every edit state of the clock-of-record the Timer1 interrupt is
\* disabled, so no seconds interrupt is served there, mins_rollover does
\* not change and MainTime.secs changes in the seconds editor only; in
\* every statement of main outside SetMenu the interrupt is enabled.
C14_FrozenWhileEditing ==
    /\ [](pc \in EditPcs => TMR1IE = 0)
    /\ [](pc \in MainPcs => TMR1IE = 1)
    /\ [][FrozenInEdit]_vars

\* the seconds editor has stepped secs down from 0 while an overflow was
\* latched, and SetMenu has returned with the interrupt enabled
C14_Witness ==
    /\ pc = "poll"
    /\ TMR1IE = 1
    /\ TMR1IF = 1
    /\ MainTime = Time(0, 0, 59)
    /\ edits = 0

\* C15 as stated: in every field edit state, those of the alarm fields
\* included, the Timer1 interrupt is disabled.
C15_AllEditorsFreeze ==
    pc \in EditPcs \cup AlarmEditPcs => TMR1IE = 0

\* C15 amended: entering an edit state of the clock-of-record disables the
\* Timer1 interrupt; entering an edit state of an alarm field leaves it
\* enabled, and it stays enabled in every alarm edit state.
C15_ClockEditorsFreeze ==
    /\ [][EditEntry]_vars
    /\ [](pc \in AlarmEditPcs => TMR1IE = 1)

\* the seconds interrupt has advanced MainTime in the seconds editor of
\* Alarm 1
C15_Witness ==
    /\ pc = "a1_secs"
    /\ TMR1IE = 1
    /\ TMR1IF = 0
    /\ MainTime = Time(0, 0, 1)

\* C16: when the Timer1 interrupt is re-enabled at the end of an edit
\* session no overflow latched during the suspension is left pending, so
\* the first increment after resume is due to a period that ended after
\* resume.
C16_LosslessResume ==
    [][Resume => TMR1IF' = 0]_vars

\* C17: PB1pressed and PB2pressed report pressed if and only if the line
\* sampled first is asserted at the first sample and that same line is
\* still asserted at the re-sample taken after the debounce wait.
C17_Debounce ==
    [][\A b \in Buttons :
         PBpressedReturn(b) =>
           (ret' = 1 <=> (pc = ResamplePc(b) /\ FirstLine(b) = 0))]_vars

\* C18 as stated: a button is reported pressed at most once for each time
\* it has gone down.
C18_OncePerPress ==
    reports <= downs

\* C18 amended: a call reports pressed exactly when its first sample has
\* found the line asserted and its re-sample finds RB0 (PB2pressed) or RJ0
\* (PB1pressed) asserted, whatever the call before it reported.
C18_ReportsWhileHeld ==
    [][\A b \in Buttons :
         PBpressedReturn(b) =>
           (ret' = 1 <=> (pc = ResamplePc(b) /\ SecondLine(b) = 0))]_vars

\* PB2 has been held down without a change on any line and three calls of
\* PB2pressed have reported it
C18_Witness ==
    /\ pc = "pb2_done"
    /\ ret = 1
    /\ reports = MaxCalls + 1
    /\ downs = 1
    /\ bounces = MaxBounces

\* C19: when the field selected for display holds a value outside 0..99,
\* CurrentDisplay leaves Er on the digits and the error code 0x01 on the
\* indicator LEDs.
C19_RangeError ==
    [][(DisplayStep /\ disp_index' \in 0..5 /\ Shown(disp_index') > 99) =>
         /\ disp_U2' = DispChars.E
         /\ disp_U1' = DispChars.r
         /\ disp_LEDS' = 1]_vars

\* C20: CurrentDisplay with an index outside 0..5 shows Er, which is no
\* digit pattern, and the error code 0x03; with an index in 0..5 it sets
\* the marker of day, month, year, hours, minutes, seconds respectively
\* and shows the two decimal digits of a field value in 0..99; it changes
\* no clock, date or alarm state.
C20_IndexError ==
    [][DisplayStep =>
         /\ disp_index' \notin 0..5 =>
              /\ disp_U2' = DispChars.E
              /\ disp_U1' = DispChars.r
              /\ disp_U2' \notin Digits
              /\ disp_U1' \notin Digits
              /\ disp_LEDS' = 3
         /\ disp_index' \in 0..5 =>
              /\ disp_LEDS' = <<DAY, MONTH, YEAR, HRS, MINS, SECS>>[disp_index' + 1]
              /\ Shown(disp_index') <= 99 =>
                   /\ disp_U2' = DispNums[(Shown(disp_index') \div 10) + 1]
                   /\ disp_U1' = DispNums[(Shown(disp_index') % 10) + 1]
         /\ UNCHANGED <<clockVars, alarmVars>>]_vars

\* CurrentDisplay has been called with index 6
C20_Witness ==
    /\ pc = "switches"
    /\ disp_index = 6
    /\ disp_U2 = DispChars.E
    /\ disp_U1 = DispChars.r
    /\ disp_LEDS = 3


\* C21: every non-zero switch reading other than the eight mode codes takes
\* the default case of SetMenu, and a pass through that case shows Er with
\* error code 2 and changes neither the clock-of-record, nor an alarm
\* record, nor the Timer1 interrupt enable, which stays set.
C21_InvalidSelection ==
    /\ [](\A s \in (SwitchValues \ {0}) \ ModeCodes : SetMenuCase(s) = "invalid")
    /\ [](pc = "setmenu" => TMR1IE = 1)
    /\ [][InvalidSelection]_vars

\* error code 2 is shown and a seconds interrupt has been served since boot
C21_Witness ==
    /\ pc = "setmenu"
    /\ disp_U2 = DispChars.E
    /\ disp_U1 = DispChars.r
    /\ disp_LEDS = 2
    /\ TMR1IE = 1
    /\ TMR1IF = 0
    /\ MainTime = Time(0, 0, 1)


\* C22 as stated: an alarm record (enabled flag, time, date) changes only in
\* a step of SetMenu, SetAlarm1 or SetAlarm2.
C22_OnlySettings ==
    [][alarmVars' # alarmVars => pc \in MenuPcs]_vars

\* C22 amended: the alarm times and dates change only in the alarm editors
\* of the settings menu; an enabled flag changes only in its toggle loop or
\* when SoundAlarm1 / SoundAlarm2 returns, which clears the flag of the
\* alarm that sounded.
C22_SettingsOrAcknowledge ==
    [][AlarmRecordFrame]_vars

\* Alarm 1 has been enabled in its toggle loop, has sounded and has been
\* disabled by its acknowledgement
C22_Witness ==
    /\ pc = "poll2"
    /\ detected = 1
    /\ Alarm1On = 0
    /\ edits = MaxEdits - 1
    /\ TMR1IF = 0


\* C23: whenever the main context is at a statement of main, MainDate is a
\* valid calendar date: month in 1..12 and day in 1..the length of that
\* month in year_long.
C23_ValidDate ==
    pc \in MainPcs =>
        /\ MainDate.month \in 1..12
        /\ MainDate.day \in 1..MonthLength(MainDate.month, MainDate.year_long)


\* C24: when CalcTime clears mins_rollover, the count holds exactly the
\* rollovers that this CalcTime has added to the minutes, so the clear
\* discards no increment made by the seconds interrupt since the count was
\* read.
C24_NoLostRollover ==
    [][CalcTimeReturn => mins_rollover = folded]_vars


\* C25: whenever the main loop evaluates an alarm comparison (the Alarm 1 or
\* the Alarm 2 test of an alarm poll), no rollover is pending: mins_rollover
\* and day_rollover are both 0, so the time compared has had its carries
\* applied.
C25_NoPendingAtPoll ==
    [][(Poll1Step \/ Poll2Step) => (mins_rollover = 0 /\ day_rollover = 0)]_vars


\* C27: one call of SetDay on a date record whose day is valid for its own
\* month and year leaves the day within 1..length of that month in that year;
\* incrementing at the last day wraps to 1 and decrementing at 1 wraps to
\* the last day, for MainDate and for Alarm2Date, in leap and non-leap years.
C27_DayEditor == [][DayEditorKeepsValid]_vars

\* C28: one invocation of SetSecs, SetMins, SetHrs, SetMonth or SetYear with
\* only the increment button held changes the field by exactly one step up
\* (maximum wraps to minimum), with only the decrement button held by exactly
\* one step down (minimum wraps to maximum), from every in-range value; with
\* no button held the field is unchanged.
C28_OneStep == [][EditorStepsOnce]_vars


\* C29: each firing of Timer0_isr drives exactly one of the three multiplex
\* slots and advances multiplex_index through the cycle 1 -> 2 -> 3 -> 1
\* (LEDs, digit U1, digit U2), so multiplex_index is in {1, 2, 3} between
\* firings and the default branch is never taken; each firing increments
\* the four millisecond counters by exactly 1 modulo 2^16, whatever the main
\* context is doing.
C29_Multiplex == [](multiplex_index \in {1, 2, 3}) /\ [][Firing]_vars

\* three firings during the playback of an alarm: the rotation is back at
\* the LEDs, digit U2 was driven last, ms_count0 has wrapped from 65535
C29_Witness ==
    /\ fires = 0
    /\ multiplex_index = 1
    /\ driven = <<1, 0, 0, disp_U2>>
    /\ ms_count0 = 2
    /\ InPlayback

\* C30: ownership of the millisecond counters is exclusive: ms_count0 is
\* reset only by the display-cycle logic of the main loop, ms_count1 only by
\* PB1pressed / PB2pressed, ms_count2 only by the alarm poll, ms_count3 only
\* by the tone sequencer; the debounce calls made inside the note, gap and
\* pause loops never modify ms_count3, and alarm playback and the settings
\* menu never modify ms_count0 or ms_count2.
C30_Ownership == [][CounterOwners]_vars

\* a debounce call made by the tone loop of a macro has reset ms_count1 and
\* waits; ms_count3 still holds the time of the tone
C30_Witness ==
    /\ pc = WaitPc(1)
    /\ back = "tone1"
    /\ ms_count1 = 0
    /\ ms_count3 = Limit(1, "tone", note)
    /\ ms_count0 = 65535


\* C26: with Alarm 1 enabled and set to a valid time hh:mm:ss (mm = 59
\* included) and the device left idle, the main loop polling between
\* consecutive seconds ticks, SoundAlarm1 is invoked within 24 hours of
\* ticks.
C26_FiresWithinDay == ticks = 0 => pc = "sound1"


\* C31: no step writes GIE, PEIE or TMR0IE, so both interrupt levels and the
\* Timer0 interrupt stay enabled (inside SetMenu too, where TMR1IE is 0);
\* and a call of PB1pressed / PB2pressed that is in its busy-wait, with
\* Timer0 still firing, leaves the wait and takes its second sample.
C31_WaitEnds ==
    /\ []InterruptsOn
    /\ [][EnablesKept]_vars
    /\ (Waiting /\ KeepsFiring) ~> Resampling

\* a wait made inside the seconds edit loop, Timer1 disabled, has ended after
\* DEBOUNCE_DELAY firings of Timer0
C31_Witness ==
    /\ pc = ResamplePc(1)
    /\ back = EditPc("secs")
    /\ TMR1IE = 0
    /\ InterruptsOn
    /\ ms_count1 = DEBOUNCE_DELAY
    /\ fires = WaitFires - DEBOUNCE_DELAY


\* C32: in every state, so after every CalcDate and every call of SetYear,
\* year_short = year_long - 2000 and 2000 <= year_long <= 2099 hold of
\* MainDate and of Alarm2Date.
C32_YearLockstep == YearsAgree(MainDate) /\ YearsAgree(Alarm2Date)

\* the year of the clock-of-record was edited on 31 December and CalcDate
\* has then wrapped it to 2000 / 00
C32_Witness ==
    /\ pc = "display"
    /\ MainDate = Date(1, 1, 2000)
    /\ edits < YearEdits
    /\ day_rollover = 0


C34_BothSound == [][SoundsSecond]_vars


\* C35: when the minutes or hours edit loop of the clock-of-record is left
\* with the field at v, the first main-loop pass after the exit, made before
\* any new seconds tick, leaves the field at v: a minute rollover raised by
\* the seconds ISR before the edit loop was entered is not added to the
\* edited value.
C35_EditSurvives == [][KeepsEdited]_vars

====
